---- MODULE Spec2Model ----
(***************************************************************************)
(* The OCR field extractor of the sewing-pattern cataloger                 *)
(* (utils/ocrProcessor.ts): whitespace normalization, the six heuristic    *)
(* sub-extractions and the confidence score, with the regular expressions  *)
(* of the source evaluated by a backtracking matcher over sequences of     *)
(* one-character strings.                                                  *)
(***************************************************************************)
EXTENDS Integers, Sequences, FiniteSets, TLC

\* ------------------------------------------------------------ characters

UpperLetters == <<"A","B","C","D","E","F","G","H","I","J","K","L","M","N","O","P","Q","R","S","T","U","V","W","X","Y","Z">>
LowerLetters == <<"a","b","c","d","e","f","g","h","i","j","k","l","m","n","o","p","q","r","s","t","u","v","w","x","y","z">>
UpperSet == {UpperLetters[k] : k \in 1..26}
LowerSet == {LowerLetters[k] : k \in 1..26}
DigitSet == {"0","1","2","3","4","5","6","7","8","9"}
\* \w
WordSet == UpperSet \cup LowerSet \cup DigitSet \cup {"_"}
\* \s (and what String.prototype.trim removes)
SpaceSet == {" ", "\t", "\n", "\r", "\f"}
LineTerminators == {"\n", "\r"}

UpperOf == [c \in LowerSet |-> UpperLetters[CHOOSE k \in 1..26 : LowerLetters[k] = c]]
LowerOf == [c \in UpperSet |-> LowerLetters[CHOOSE k \in 1..26 : UpperLetters[k] = c]]
ToUpperChar(c) == IF c \in LowerSet THEN UpperOf[c] ELSE c
ToLowerChar(c) == IF c \in UpperSet THEN LowerOf[c] ELSE c
\* A string method that leaves the case as it is: the variant of toUpperCase
\* that C7 is tested against.
SameCase(s) == s
\* String.prototype.toUpperCase / toLowerCase
toUpperCase(s) == [k \in 1..Len(s) |-> ToUpperChar(s[k])]
toLowerCase(s) == [k \in 1..Len(s) |-> ToLowerChar(s[k])]

Max(a, b) == IF a >= b THEN a ELSE b
Min(a, b) == IF a <= b THEN a ELSE b
\* s.substring(from, to), 0-based, to exclusive
Substring(s, from, to) == [k \in 1..(to - from) |-> s[from + k]]

\* ---------------------------------------------------- regular expressions
\* Syntax trees of the pattern language the source uses.
Lit(c) == [t |-> "lit", c |-> c]
\* a run of literal characters
Str(w) == [t |-> "str", w |-> w]
Cls(S) == [t |-> "cls", s |-> S, neg |-> FALSE]
NCls(S) == [t |-> "cls", s |-> S, neg |-> TRUE]
Cat(rs) == [t |-> "cat", rs |-> rs]
Alt(rs) == [t |-> "alt", rs |-> rs]
\* hi < 0: no upper limit
Rep(r, lo, hi) == [t |-> "rep", r |-> r, lo |-> lo, hi |-> hi, lazy |-> FALSE]
LazyRep(r, lo, hi) == [t |-> "rep", r |-> r, lo |-> lo, hi |-> hi, lazy |-> TRUE]
Opt(r) == Rep(r, 0, 1)
Star(r) == Rep(r, 0, -1)
Plus(r) == Rep(r, 1, -1)
WordB == [t |-> "wb"]
\* ^ under the m flag
LineStart == [t |-> "bol"]
AnyOf(ws) == Alt([k \in 1..Len(ws) |-> Str(ws[k])])
\* . (no s flag)
Dot == NCls(LineTerminators)

\* Canonicalize of the i flag: pattern characters to upper case.
RECURSIVE Canon(_)
Canon(r) ==
  CASE r.t = "lit" -> Lit(ToUpperChar(r.c))
    [] r.t = "str" -> Str([k \in 1..Len(r.w) |-> ToUpperChar(r.w[k])])
    [] r.t = "cls" -> [r EXCEPT !.s = {ToUpperChar(c) : c \in r.s}]
    [] r.t = "cat" -> Cat([k \in 1..Len(r.rs) |-> Canon(r.rs[k])])
    [] r.t = "alt" -> Alt([k \in 1..Len(r.rs) |-> Canon(r.rs[k])])
    [] r.t = "rep" -> [r EXCEPT !.r = Canon(r.r)]
    [] OTHER -> r

\* A RegExp object: its tree and its flags (every RegExp of the source has g).
RegExp(r, flags) ==
  [ast |-> IF "i" \in flags THEN Canon(r) ELSE r, i |-> "i" \in flags]

IsWordAt(s, j) == j >= 0 /\ j < Len(s) /\ s[j + 1] \in WordSet
\* The k-th character of s as the matcher compares it: canonicalized under
\* the i flag (ic).
CharAt(s, k, ic) == IF ic THEN ToUpperChar(s[k]) ELSE s[k]

\* The ends of a repetition of one character or character class: the run of
\* matching characters from i on, longest first (shortest first when lazy).
EndsRun(r, s, i, ic) ==
  LET most == IF r.hi < 0 THEN Len(s) - i ELSE Min(r.hi, Len(s) - i)
      misses == {k \in 1..most :
                   IF r.r.t = "lit" THEN CharAt(s, i + k, ic) # r.r.c
                   ELSE (CharAt(s, i + k, ic) \in r.r.s) = r.r.neg}
      run == IF misses = {} THEN most
             ELSE (CHOOSE k \in misses : \A j \in misses : k <= j) - 1
  IN  IF run < r.lo THEN <<>>
      ELSE [n \in 1..(run - r.lo + 1) |->
              IF r.lazy THEN i + r.lo + n - 1 ELSE i + run - n + 1]

\* The end positions (0-based) at which r can match s from position i, in
\* the order the backtracking matcher tries them. EndsCat: the parts of a
\* concatenation from the k-th on. EndsAlt: the alternatives from the k-th
\* on. EndsRep: between lo and hi more repetitions (hi < 0: any number).
\* EachCat, EachRep: the same from each of the positions es[from..to] in turn.
RECURSIVE Ends(_, _, _, _)
RECURSIVE EndsCat(_, _, _, _, _)
RECURSIVE EndsAlt(_, _, _, _, _)
RECURSIVE EndsRep(_, _, _, _, _, _)
RECURSIVE EachCat(_, _, _, _, _, _, _)
RECURSIVE EachRep(_, _, _, _, _, _, _, _)
Ends(r, s, i, ic) ==
  CASE r.t = "str" -> IF i + Len(r.w) <= Len(s)
                         /\ \A k \in 1..Len(r.w) : CharAt(s, i + k, ic) = r.w[k]
                      THEN <<i + Len(r.w)>> ELSE <<>>
    [] r.t = "cat" -> EndsCat(r.rs, 1, s, i, ic)
    [] r.t = "wb"  -> IF IsWordAt(s, i - 1) # IsWordAt(s, i) THEN <<i>> ELSE <<>>
    [] r.t = "cls" -> IF i < Len(s) /\ ((CharAt(s, i + 1, ic) \in r.s) # r.neg)
                      THEN <<i + 1>> ELSE <<>>
    [] r.t = "rep" -> IF r.r.t \in {"cls", "lit"} THEN EndsRun(r, s, i, ic)
                      ELSE EndsRep(r, r.lo, r.hi, s, i, ic)
    [] r.t = "alt" -> EndsAlt(r.rs, 1, s, i, ic)
    [] r.t = "lit" -> IF i < Len(s) /\ CharAt(s, i + 1, ic) = r.c THEN <<i + 1>> ELSE <<>>
    [] r.t = "bol" -> IF i = 0 \/ s[i] \in LineTerminators THEN <<i>> ELSE <<>>
EndsCat(rs, k, s, i, ic) ==
  IF k > Len(rs) THEN <<i>>
  ELSE IF k = Len(rs) THEN Ends(rs[k], s, i, ic)
  ELSE LET es == Ends(rs[k], s, i, ic)
       IN  EachCat(rs, k + 1, s, es, 1, Len(es), ic)
EachCat(rs, k, s, es, from, to, ic) ==
  IF from > to THEN <<>>
  ELSE IF from = to THEN EndsCat(rs, k, s, es[from], ic)
  ELSE LET mid == (from + to) \div 2
       IN  EachCat(rs, k, s, es, from, mid, ic) \o EachCat(rs, k, s, es, mid + 1, to, ic)
EndsAlt(rs, k, s, i, ic) ==
  IF k > Len(rs) THEN <<>>
  ELSE Ends(rs[k], s, i, ic) \o EndsAlt(rs, k + 1, s, i, ic)
EndsRep(r, lo, hi, s, i, ic) ==
  LET more == IF hi = 0 THEN <<>>
              ELSE LET es == Ends(r.r, s, i, ic)
                   IN  EachRep(r, Max(lo - 1, 0), IF hi < 0 THEN hi ELSE hi - 1,
                               s, es, 1, Len(es), ic)
      stop == IF lo = 0 THEN <<i>> ELSE <<>>
  IN  IF r.lazy THEN stop \o more ELSE more \o stop
EachRep(r, lo, hi, s, es, from, to, ic) ==
  IF from > to THEN <<>>
  ELSE IF from = to THEN EndsRep(r, lo, hi, s, es[from], ic)
  ELSE LET mid == (from + to) \div 2
       IN  EachRep(r, lo, hi, s, es, from, mid, ic) \o EachRep(r, lo, hi, s, es, mid + 1, to, ic)

\* RegExpBuiltinExec: the first match of re in s at or after lastIndex, as
\* [index, end], or Null: the leftmost position from which the tree matches,
\* and the first end the matcher finds from there.
Null == [index |-> -1, end |-> -1]
MatchAt(re, s, first) == [index |-> first, end |-> Ends(re.ast, s, first, re.i)[1]]
FirstOf(re, s, starts) ==
  IF starts = {} THEN Null
  ELSE MatchAt(re, s, CHOOSE i \in starts : \A j \in starts : i <= j)
RegExpExec(re, s, lastIndex) ==
  FirstOf(re, s, {i \in lastIndex..Len(s) : Ends(re.ast, s, i, re.i) # <<>>})

\* JavaScript's undefined, and a thrown TypeError: tuples that no text equals
\* (a text holds one-character strings only).
undefined == <<"undefined">>
TypeError == <<"TypeError">>
\* if (x) for a string or undefined: undefined and "" are falsy.
Truthy(x) == x # undefined /\ x # <<>>
\* A test of the result of match that null passes too: the variant of NotNull
\* that C2 is tested against (an unguarded matches[0]).
NeverNull(matches) == TRUE
\* if (matches) for the result of match: null is falsy, an array is truthy.
NotNull(matches) == matches # <<>>

\* The loop of RegExp.prototype[@@match] and [@@replace] for a g-flag RegExp:
\* every match from position i on, left to right; an empty match advances
\* lastIndex by one.
RECURSIVE ExecAll(_, _, _)
RECURSIVE ExecOn(_, _, _)
ExecAll(re, s, i) == ExecOn(re, s, RegExpExec(re, s, i))
ExecOn(re, s, m) ==
  IF m = Null THEN <<>>
  ELSE <<m>> \o ExecAll(re, s, IF m.end = m.index THEN m.end + 1 ELSE m.end)

\* re.exec(s) in the place of s.match(re): one match, searched from lastIndex,
\* which is left at its end. The variant of StringMatch that C4 is tested
\* against.
OneMatch(s, m) ==
  [matches |-> IF m = Null THEN <<>> ELSE <<Substring(s, m.index, m.end)>>,
   lastIndex |-> IF m = Null THEN 0 ELSE m.end]
StringMatchFromLastIndex(s, re, lastIndex) == OneMatch(s, RegExpExec(re, s, lastIndex))
\* text.match(re) for a g-flag RegExp whose lastIndex is lastIndex when the
\* call starts: lastIndex is set to 0 first and is 0 again when the loop
\* ends; the result is the array of matched strings, or null (<<>>).
Matched(s, ms) == [k \in 1..Len(ms) |-> Substring(s, ms[k].index, ms[k].end)]
StringMatch(s, re, lastIndex) ==
  [matches |-> Matched(s, ExecAll(re, s, 0)), lastIndex |-> 0]

\* re.test(s) for a g-flag RegExp: searches from lastIndex and leaves
\* lastIndex at the end of the match (0 when there is none).
Tested(m) == [found |-> m # Null, lastIndex |-> IF m = Null THEN 0 ELSE m.end]
RegExpTest(re, s, lastIndex) == Tested(RegExpExec(re, s, lastIndex))

\* matches[0]; a property read of null throws.
ElementZero(matches) == IF matches = <<>> THEN TypeError ELSE matches[1]

\* s.replace(re, by) for a g-flag RegExp created where it is used.
RECURSIVE Splice(_, _, _, _, _)
Splice(s, ms, k, from, by) ==
  IF k > Len(ms) THEN Substring(s, from, Len(s))
  ELSE Substring(s, from, ms[k].index) \o by \o Splice(s, ms, k + 1, ms[k].end, by)
StringReplace(s, re, by) ==
  Splice(s, ExecAll(re, s, 0), 1, 0, by)

\* s.trim()
RECURSIVE TrimStart(_)
TrimStart(s) == IF s # <<>> /\ Head(s) \in SpaceSet THEN TrimStart(Tail(s)) ELSE s
RECURSIVE TrimEnd(_)
TrimEnd(s) ==
  IF s # <<>> /\ s[Len(s)] \in SpaceSet THEN TrimEnd(SubSeq(s, 1, Len(s) - 1)) ELSE s
Trim(s) == TrimEnd(TrimStart(s))

\* s.split(/\s+/): the pieces between the whitespace runs; a text with no
\* whitespace (the empty text too) is one piece.
Between(s, ms) ==
  [k \in 1..(Len(ms) + 1) |->
     Substring(s, IF k = 1 THEN 0 ELSE ms[k - 1].end,
                  IF k > Len(ms) THEN Len(s) ELSE ms[k].index)]
SplitOnSpace(s) == Between(s, ExecAll(RegExp(Plus(Cls(SpaceSet)), {}), s, 0))

\* array.join(sep)
RECURSIVE Join(_, _)
Join(xs, sep) ==
  IF xs = <<>> THEN <<>>
  ELSE IF Len(xs) = 1 THEN xs[1]
  ELSE xs[1] \o sep \o Join(Tail(xs), sep)

\* s.includes(w)
Includes(s, w) ==
  \E i \in 0..(Len(s) - Len(w)) : Substring(s, i, i + Len(w)) = w

\* ------------------------------------------------- utils/ocrProcessor.ts

PATTERN_COMPANIES ==
  << <<"S","i","m","p","l","i","c","i","t","y">>, <<"M","c","C","a","l","l","'","s">>, <<"B","u","t","t","e","r","i","c","k">>, <<"V","o","g","u","e">>, <<"B","u","r","d","a">>, <<"N","e","w"," ","L","o","o","k">>,
     <<"K","w","i","k"," ","S","e","w">>, <<"P","a","t","t","e","r","n","s"," ","f","o","r"," ","P","i","r","a","t","e","s">>, <<"C","l","o","s","e","t"," ","C","o","r","e">>, <<"C","a","s","h","m","e","r","e","t","t","e">>,
     <<"T","r","u","e"," ","B","i","a","s">>, <<"G","r","a","i","n","l","i","n","e"," ","S","t","u","d","i","o">>, <<"D","e","e","r"," ","&"," ","D","o","e">>, <<"N","a","m","e","d"," ","C","l","o","t","h","i","n","g">>,
     <<"P","a","p","e","r","c","u","t"," ","P","a","t","t","e","r","n","s">>, <<"S","e","w"," ","H","o","u","s","e"," ","S","e","v","e","n">>, <<"H","e","l","e","n","'","s"," ","C","l","o","s","e","t">>, <<"M","o","o","d"," ","F","a","b","r","i","c","s">> >>

FABRIC_TYPES ==
  << <<"C","o","t","t","o","n">>, <<"L","i","n","e","n">>, <<"S","i","l","k">>, <<"W","o","o","l">>, <<"P","o","l","y","e","s","t","e","r">>, <<"R","a","y","o","n">>, <<"V","i","s","c","o","s","e">>,
     <<"J","e","r","s","e","y">>, <<"K","n","i","t">>, <<"W","o","v","e","n">>, <<"S","t","r","e","t","c","h">>, <<"D","e","n","i","m">>, <<"C","h","i","f","f","o","n">>, <<"S","a","t","i","n">>,
     <<"V","e","l","v","e","t">>, <<"F","l","e","e","c","e">>, <<"C","a","n","v","a","s">>, <<"T","w","i","l","l">>, <<"C","r","e","p","e">>, <<"G","e","o","r","g","e","t","t","e">> >>

\* \s, \d, \w, [A-Z]
Sp == Cls(SpaceSet)
Dg == Cls(DigitSet)
Wd == Cls(WordSet)
AZ == Cls(UpperSet)
\* The en dash U+2013 of the size patterns, written "~" here: the module's
\* strings are ASCII.
EnDash == "~"
\* [-\u2013]
Dash == Cls({"-", EnDash})
\* [^\\n\\r] as the source spells it in its regex literals: the doubled
\* backslash is an escaped backslash, so the class excludes backslash, the
\* letter n and the letter r.
NotBackslashNR == NCls({"\\", "n", "r"})

\* The four patterns of SIZE_PATTERNS.
\* The letter sizes without the word boundaries: the variant of LetterSizes
\* that C10 is tested against.
LetterSizesAnywhere ==
  RegExp(AnyOf(<<<<"X","S">>, <<"S">>, <<"M">>, <<"L">>, <<"X","L">>, <<"X","X","L">>>>), {"g", "i"})
\* /\b(?:XS|S|M|L|XL|XXL)\b/gi
LetterSizes ==
  RegExp(Cat(<<WordB, AnyOf(<<<<"X","S">>, <<"S">>, <<"M">>, <<"L">>, <<"X","L">>, <<"X","X","L">>>>), WordB>>),
         {"g", "i"})
\* /\b\d{1,2}[-\u2013]\d{1,2}\b/g
NumberRange ==
  RegExp(Cat(<<WordB, Rep(Dg, 1, 2), Dash, Rep(Dg, 1, 2), WordB>>), {"g"})
\* /\b\d{1,2}\s*[-\u2013]\s*\d{1,2}\b/g
SpacedNumberRange ==
  RegExp(Cat(<<WordB, Rep(Dg, 1, 2), Star(Sp), Dash, Star(Sp), Rep(Dg, 1, 2), WordB>>),
         {"g"})
\* /\bSize[s]?\s*:?\s*([XS|S|M|L|XL|XXL|\d\-\s]+)/gi
LabelledSizes ==
  RegExp(Cat(<<WordB, Str(<<"S","i","z","e">>), Opt(Cls({"s"})), Star(Sp), Opt(Lit(":")), Star(Sp),
               Plus(Cls({"X", "S", "|", "M", "L", "-"} \cup DigitSet \cup SpaceSet))>>),
         {"g", "i"})
SIZE_PATTERNS == <<LetterSizes, NumberRange, SpacedNumberRange, LabelledSizes>>

DIFFICULTY_PATTERNS ==
  << RegExp(Cat(<<WordB,
                  AnyOf(<<<<"B","e","g","i","n","n","e","r">>, <<"E","a","s","y">>, <<"I","n","t","e","r","m","e","d","i","a","t","e">>, <<"A","d","v","a","n","c","e","d">>, <<"E","x","p","e","r","t">>>>),
                  WordB>>), {"g", "i"}),
     RegExp(Cat(<<WordB, Str(<<"L","e","v","e","l">>), Star(Sp), Cls({"1", "2", "3", "4"}), WordB>>),
            {"g", "i"}),
     RegExp(Cat(<<WordB, Str(<<"S","k","i","l","l">>), Star(Sp), Str(<<"L","e","v","e","l">>), Star(Sp), Opt(Lit(":")),
                  Star(Sp), Plus(Wd)>>), {"g", "i"}) >>

\* lastIndex of the module-level RegExp objects when the module is loaded.
InitialLastIndex ==
  [size |-> [k \in 1..Len(SIZE_PATTERNS) |-> 0],
   difficulty |-> [k \in 1..Len(DIFFICULTY_PATTERNS) |-> 0]]

\* The clean-up without its trim(): the variant of CleanText that C9 is
\* tested against.
CollapseOnly(extractedText) ==
  StringReplace(extractedText, RegExp(Plus(Sp), {"g"}), <<" ">>)
\* extractedText.replace(/\s+/g, ' ').trim()
CleanText(extractedText) ==
  Trim(StringReplace(extractedText, RegExp(Plus(Sp), {"g"}), <<" ">>))

\* new RegExp(`\\b${company.replace(/'/g, '\\\'').replace(/\s+/g, '\\s+')}\\b`, 'gi'):
\* the name's characters as literals (\' is the apostrophe), each whitespace
\* run of the name as \s+.
RECURSIVE Interleave(_, _)
Interleave(rs, sep) ==
  IF Len(rs) <= 1 THEN rs ELSE <<rs[1], sep>> \o Interleave(Tail(rs), sep)
CompanyRegExp(company) ==
  LET parts == SplitOnSpace(company)
  IN  RegExp(Cat(<<WordB>> \o Interleave([k \in 1..Len(parts) |-> Str(parts[k])], Plus(Sp))
                 \o <<WordB>>), {"g", "i"})

\* A match of a word with a part of a word of the text, or of a word of the
\* text with a part of it: the variant of ArrayIncludes that C3 is tested
\* against.
ArrayIncludesPartly(xs, x) ==
  \E k \in 1..Len(xs) : Includes(xs[k], x) \/ Includes(x, xs[k])
\* words.includes(word)
ArrayIncludes(xs, x) == \E k \in 1..Len(xs) : xs[k] = x

RECURSIVE ExactCompany(_, _)
ExactCompany(text, k) ==
  IF k > Len(PATTERN_COMPANIES) THEN undefined
  ELSE IF RegExpTest(CompanyRegExp(PATTERN_COMPANIES[k]), text, 0).found
       THEN PATTERN_COMPANIES[k]
       ELSE ExactCompany(text, k + 1)
\* The partial match taken in the order of the words of the text: the company
\* of the first word of the text that is a word of a company. The variant of
\* PartialCompany that C12 is tested against.
RECURSIVE PartialCompanyByTextOrder(_, _)
PartialCompanyByTextOrder(words, k) ==
  IF k > Len(words) THEN undefined
  ELSE IF \E c \in 1..Len(PATTERN_COMPANIES) :
            ArrayIncludes(SplitOnSpace(toLowerCase(PATTERN_COMPANIES[c])), words[k])
       THEN PATTERN_COMPANIES[
              CHOOSE c \in 1..Len(PATTERN_COMPANIES) :
                /\ ArrayIncludes(SplitOnSpace(toLowerCase(PATTERN_COMPANIES[c])), words[k])
                /\ \A d \in 1..(c - 1) :
                     ~ArrayIncludes(SplitOnSpace(toLowerCase(PATTERN_COMPANIES[d])), words[k])]
       ELSE PartialCompanyByTextOrder(words, k + 1)
RECURSIVE PartialCompany(_, _)
PartialCompany(words, k) ==
  IF k > Len(PATTERN_COMPANIES) THEN undefined
  ELSE LET companyWords == SplitOnSpace(toLowerCase(PATTERN_COMPANIES[k]))
       IN  IF \E j \in 1..Len(companyWords) : ArrayIncludes(words, companyWords[j])
           THEN PATTERN_COMPANIES[k]
           ELSE PartialCompany(words, k + 1)
\* The partial matches tried before the exact ones: the variant of
\* extractCompany that C17 is tested against.
PartialOrExact(text, partial) ==
  IF partial # undefined THEN partial ELSE ExactCompany(text, 1)
extractCompanyPartialFirst(text) ==
  PartialOrExact(text, PartialCompany(SplitOnSpace(toLowerCase(text)), 1))
extractCompany(text) ==
  LET exact == ExactCompany(text, 1)
  IN  IF exact # undefined THEN exact
      ELSE PartialCompany(SplitOnSpace(toLowerCase(text)), 1)

\* The code pattern ([A-Z]?\d{3,5}[A-Z]?) of the labelled shapes.
LabelledCode == <<Opt(AZ), Rep(Dg, 3, 5), Opt(AZ)>>
PatternLabel == <<Str(<<"P","a","t","t","e","r","n">>), Star(Sp), Opt(Lit("#")), Star(Sp), Opt(Lit(":")), Star(Sp)>>
NoLabel == <<Str(<<"N","o">>), Opt(Lit(".")), Star(Sp), Opt(Lit(":")), Star(Sp)>>
NumberPatterns ==
  << RegExp(Cat(<<WordB, Opt(AZ), Rep(Dg, 4, 5), WordB>>), {"g"}),
     RegExp(Cat(<<WordB, Rep(Dg, 3, 4), Opt(AZ), WordB>>), {"g"}),
     RegExp(Cat(PatternLabel \o LabelledCode), {"g", "i"}),
     RegExp(Cat(NoLabel \o LabelledCode), {"g", "i"}) >>

RECURSIVE PatternNumberFrom(_, _)
PatternNumberFrom(text, k) ==
  IF k > Len(NumberPatterns) THEN undefined
  ELSE LET matches == StringMatch(text, NumberPatterns[k], 0).matches
       IN  IF NotNull(matches)
           THEN LET m0 == ElementZero(matches)
                    match == StringReplace(
                               StringReplace(m0, RegExp(Cat(PatternLabel), {"g", "i"}), <<>>),
                               RegExp(Cat(NoLabel), {"g", "i"}), <<>>)
                IN  IF m0 = TypeError THEN TypeError
                    ELSE IF Len(match) >= 3 /\ Len(match) <= 6 THEN toUpperCase(match)
                    ELSE PatternNumberFrom(text, k + 1)
           ELSE PatternNumberFrom(text, k + 1)
extractPatternNumber(text) == PatternNumberFrom(text, 1)

NameLabel == <<AnyOf(<<<<"P","a","t","t","e","r","n">>, <<"D","e","s","i","g","n">>>>), Star(Sp), Opt(Lit(":")), Star(Sp)>>
NamePatterns ==
  << RegExp(Cat(NameLabel \o <<AZ, Rep(NotBackslashNR, 10, 50)>>), {"g", "i"}),
     RegExp(Cat(<<LineStart, AZ, Rep(NotBackslashNR, 10, 50)>>), {"g", "m"}) >>
\* The qualifiers of grown-ups only: the variant of Qualifiers that C23 is
\* tested against.
AdultQualifiers ==
  RegExp(Cat(<<WordB, AnyOf(<<<<"M","i","s","s","e","s">>, <<"W","o","m","e","n">>, <<"M","e","n">>>>), WordB>>), {"g", "i"})
Qualifiers ==
  RegExp(Cat(<<WordB,
               AnyOf(<<<<"M","i","s","s","e","s">>, <<"W","o","m","e","n">>, <<"M","e","n">>, <<"C","h","i","l","d","r","e","n">>, <<"K","i","d","s">>, <<"G","i","r","l","s">>, <<"B","o","y","s">>>>),
               WordB>>), {"g", "i"})
\* The word wherever it stands, inside longer words too: the variant of
\* WholeWordRegExp that C13 is tested against.
PartOfWordRegExp(word) == RegExp(Str(word), {"g", "i"})
\* new RegExp(`\\b${company}\\b`, 'gi')
WholeWordRegExp(word) == RegExp(Cat(<<WordB, Str(word), WordB>>), {"g", "i"})

RECURSIVE PatternNameFrom(_, _, _)
PatternNameFrom(text, company, k) ==
  IF k > Len(NamePatterns) THEN undefined
  ELSE LET matches == StringMatch(text, NamePatterns[k], 0).matches
       IN  IF NotNull(matches)
           THEN LET m0 == ElementZero(matches)
                    name1 == Trim(StringReplace(m0, RegExp(Cat(NameLabel), {"g", "i"}), <<>>))
                    name2 == Trim(StringReplace(name1, Qualifiers, <<>>))
                    name == IF Truthy(company)
                            THEN Trim(StringReplace(name2, WholeWordRegExp(company), <<>>))
                            ELSE name2
                IN  IF m0 = TypeError THEN TypeError
                    ELSE IF Len(name) >= 5 /\ Len(name) <= 50 THEN name
                    ELSE PatternNameFrom(text, company, k + 1)
           ELSE PatternNameFrom(text, company, k + 1)
extractPatternName(text, company) == PatternNameFrom(text, company, 1)

SizeLabel == RegExp(Cat(<<Str(<<"S","i","z","e">>), Opt(Cls({"s"})), Star(Sp), Opt(Lit(":")), Star(Sp)>>),
                    {"g", "i"})
\* The loop taken from the last rule of SIZE_PATTERNS to the first: the
\* variant of SizeRangeFrom that C19 is tested against.
RECURSIVE SizeRangeLastRuleFirst(_, _, _)
SizeRangeLastRuleFirst(text, k, li) ==
  IF k > Len(SIZE_PATTERNS) THEN [value |-> undefined, lastIndex |-> li]
  ELSE IF RegExpExec(SIZE_PATTERNS[Len(SIZE_PATTERNS) + 1 - k], text, 0) = Null
       THEN SizeRangeLastRuleFirst(text, k + 1, li)
       ELSE [value |-> Trim(StringReplace(
                         ElementZero(StringMatch(text, SIZE_PATTERNS[Len(SIZE_PATTERNS) + 1 - k], 0).matches),
                         SizeLabel, <<>>)),
             lastIndex |-> li]
\* The loop over SIZE_PATTERNS; li is the lastIndex of each of its RegExp
\* objects. Yields the value returned and the objects' lastIndex afterwards.
RECURSIVE SizeRangeFrom(_, _, _)
SizeRangeFrom(text, k, li) ==
  IF k > Len(SIZE_PATTERNS) THEN [value |-> undefined, lastIndex |-> li]
  ELSE LET r == StringMatch(text, SIZE_PATTERNS[k], li[k])
           li2 == [li EXCEPT ![k] = r.lastIndex]
       IN  IF NotNull(r.matches)
           THEN LET m0 == ElementZero(r.matches)
                    size == Trim(StringReplace(m0, SizeLabel, <<>>))
                IN  IF m0 = TypeError THEN [value |-> TypeError, lastIndex |-> li2]
                    ELSE IF Len(size) >= 1 /\ Len(size) <= 20
                         THEN [value |-> size, lastIndex |-> li2]
                    ELSE SizeRangeFrom(text, k + 1, li2)
           ELSE SizeRangeFrom(text, k + 1, li2)
extractSizeRange(text, li) == SizeRangeFrom(text, 1, li)

FabricLabel == <<Str(<<"F","a","b","r","i","c">>), Opt(Cls({"s"})), Star(Sp), Opt(Lit(":")), Star(Sp),
                 Rep(NotBackslashNR, 5, 30)>>
fabricKeywords ==
  << RegExp(Cat(FabricLabel), {"g", "i"}),
     RegExp(Cat(<<Str(<<"S","u","g","g","e","s","t","e","d">>), Star(Sp)>> \o FabricLabel), {"g", "i"}),
     RegExp(Cat(<<Str(<<"R","e","c","o","m","m","e","n","d","e","d">>), Star(Sp)>> \o FabricLabel), {"g", "i"}) >>
\* /.*?:\s*/gi
UpToColon == RegExp(Cat(<<LazyRep(Dot, 0, -1), Lit(":"), Star(Sp)>>), {"g", "i"})

FabricRegExps == [k \in 1..Len(FABRIC_TYPES) |-> WholeWordRegExp(FABRIC_TYPES[k])]
RECURSIVE CatalogFabrics(_, _)
CatalogFabrics(text, k) ==
  IF k > Len(FABRIC_TYPES) THEN <<>>
  ELSE (IF RegExpTest(FabricRegExps[k], text, 0).found
        THEN <<FABRIC_TYPES[k]>> ELSE <<>>) \o CatalogFabrics(text, k + 1)
\* The second loop: foundFabrics after the keyword patterns from k on; threw
\* when reading matches[0] threw.
RECURSIVE KeywordFabrics(_, _, _)
KeywordFabrics(text, foundFabrics, k) ==
  IF k > Len(fabricKeywords) THEN [threw |-> FALSE, found |-> foundFabrics]
  ELSE LET matches == StringMatch(text, fabricKeywords[k], 0).matches
       IN  IF NotNull(matches)
           THEN LET m0 == ElementZero(matches)
                    fabricText == Trim(StringReplace(m0, UpToColon, <<>>))
                IN  IF m0 = TypeError THEN [threw |-> TRUE, found |-> foundFabrics]
                    ELSE KeywordFabrics(text, Append(foundFabrics, fabricText), k + 1)
           ELSE KeywordFabrics(text, foundFabrics, k + 1)
\* foundFabrics.slice(0, 3)
SliceFirst(xs, n) == SubSeq(xs, 1, Min(Len(xs), n))
extractFabricType(text) ==
  LET r == KeywordFabrics(text, CatalogFabrics(text, 1), 1)
      foundFabrics == r.found
  IN  IF r.threw THEN TypeError
      ELSE IF Len(foundFabrics) > 0 THEN Join(SliceFirst(foundFabrics, 3), <<","," ">>)
      ELSE undefined

\* The difficulty as the text spells it: the variant of normalizeDifficulty
\* that C6 is tested against.
RawDifficulty(difficulty) == difficulty
normalizeDifficulty(difficulty) ==
  LET lower == toLowerCase(difficulty)
  IN  IF Includes(lower, <<"b","e","g","i","n","n","e","r">>) \/ Includes(lower, <<"e","a","s","y">>)
         \/ Includes(lower, <<"l","e","v","e","l"," ","1">>) THEN <<"B","e","g","i","n","n","e","r">>
      ELSE IF Includes(lower, <<"i","n","t","e","r","m","e","d","i","a","t","e">>) \/ Includes(lower, <<"l","e","v","e","l"," ","2">>)
           THEN <<"I","n","t","e","r","m","e","d","i","a","t","e">>
      ELSE IF Includes(lower, <<"a","d","v","a","n","c","e","d">>) \/ Includes(lower, <<"l","e","v","e","l"," ","3">>)
           THEN <<"A","d","v","a","n","c","e","d">>
      ELSE IF Includes(lower, <<"e","x","p","e","r","t">>) \/ Includes(lower, <<"l","e","v","e","l"," ","4">>)
           THEN <<"E","x","p","e","r","t">>
      ELSE undefined

RECURSIVE DifficultyFrom(_, _, _)
DifficultyFrom(text, k, li) ==
  IF k > Len(DIFFICULTY_PATTERNS) THEN [value |-> undefined, lastIndex |-> li]
  ELSE LET r == StringMatch(text, DIFFICULTY_PATTERNS[k], li[k])
           li2 == [li EXCEPT ![k] = r.lastIndex]
       IN  IF NotNull(r.matches)
           THEN LET m0 == ElementZero(r.matches)
                    difficulty == Trim(StringReplace(m0, UpToColon, <<>>))
                    normalized == normalizeDifficulty(difficulty)
                IN  IF m0 = TypeError THEN [value |-> TypeError, lastIndex |-> li2]
                    ELSE IF Truthy(normalized)
                         THEN [value |-> normalized, lastIndex |-> li2]
                    ELSE DifficultyFrom(text, k + 1, li2)
           ELSE DifficultyFrom(text, k + 1, li2)
extractDifficulty(text, li) == DifficultyFrom(text, 1, li)

\* if (x) data.f = x: the field is set only for a truthy value; an absent
\* field reads as undefined.
FieldValue(x) == IF Truthy(x) THEN x ELSE undefined
EmptyData ==
  [company |-> undefined, patternNumber |-> undefined, patternName |-> undefined,
   sizeRange |-> undefined, fabricType |-> undefined, difficulty |-> undefined]

\* extractStructuredData(text) with the module-level RegExp objects'
\* lastIndex li. A TypeError thrown by a sub-extraction ends the function
\* there: threw is TRUE and the later sub-extractions have not run.
\* Collected: the outcome, given what each sub-extraction returned or threw.
Collected(li, company, patternNumber, patternName, size, fabricType, diff) ==
  IF patternNumber = TypeError \/ patternName = TypeError
  THEN [threw |-> TRUE, data |-> EmptyData, lastIndex |-> li]
  ELSE IF size.value = TypeError \/ fabricType = TypeError
  THEN [threw |-> TRUE, data |-> EmptyData,
        lastIndex |-> [li EXCEPT !.size = size.lastIndex]]
  ELSE [threw |-> diff.value = TypeError,
        data |-> IF diff.value = TypeError THEN EmptyData
                 ELSE [company |-> FieldValue(company),
                       patternNumber |-> FieldValue(patternNumber),
                       patternName |-> FieldValue(patternName),
                       sizeRange |-> FieldValue(size.value),
                       fabricType |-> FieldValue(fabricType),
                       difficulty |-> FieldValue(diff.value)],
        lastIndex |-> [size |-> size.lastIndex, difficulty |-> diff.lastIndex]]
\* The sub-extractions after extractCompany, which extractPatternName uses.
AfterCompany(text, li, company) ==
  Collected(li, company, extractPatternNumber(text), extractPatternName(text, company),
            extractSizeRange(text, li.size), extractFabricType(text),
            extractDifficulty(text, li.difficulty))
extractStructuredData(text, li) == AfterCompany(text, li, extractCompany(text))

\* calculateConfidence, in hundredths: 30 is the source's 0.3, 100 its 1.0.
\* FieldScore: the base score and the points of the extracted fields.
FieldScore(extractedData) ==
  30 + (IF Truthy(extractedData.company) THEN 20 ELSE 0)
     + (IF Truthy(extractedData.patternNumber) THEN 20 ELSE 0)
     + (IF Truthy(extractedData.patternName) THEN 15 ELSE 0)
     + (IF Truthy(extractedData.sizeRange) THEN 10 ELSE 0)
     + (IF Truthy(extractedData.fabricType) THEN 5 ELSE 0)
     + (IF Truthy(extractedData.difficulty) THEN 5 ELSE 0)
\* The bonus with thresholds that the lengths 50 and 100 reach: the variant of
\* LengthBonus that C5 is tested against.
LengthBonusInclusive(text) ==
  (IF Len(text) >= 50 THEN 5 ELSE 0) + (IF Len(text) >= 100 THEN 5 ELSE 0)
\* The bonus for text quality.
LengthBonus(text) ==
  (IF Len(text) > 50 THEN 5 ELSE 0) + (IF Len(text) > 100 THEN 5 ELSE 0)
\* The score without its cap: the variant of calculateConfidence that C1 is
\* tested against.
UncappedConfidence(extractedData, text) == FieldScore(extractedData) + LengthBonus(text)
calculateConfidence(extractedData, text) ==
  Min(FieldScore(extractedData) + LengthBonus(text), 100)

NoResult == [text |-> undefined, confidence |-> 0, extractedData |-> EmptyData]

\* processOCR after the service has returned extractedText: the try block
\* from the clean-up on, and the catch block for what it throws.
\* Settled: the return, or the catch, once extractStructuredData has ended.
Settled(cleanText, ex) ==
  IF ex.threw
  THEN [settled |-> "rejected", caught |-> "TypeError", result |-> NoResult,
        lastIndex |-> ex.lastIndex]
  ELSE [settled |-> "resolved", caught |-> "nothing",
        result |-> [text |-> cleanText,
                    confidence |-> calculateConfidence(ex.data, cleanText),
                    extractedData |-> ex.data],
        lastIndex |-> ex.lastIndex]
\* The try block after the clean-up.
Processed(cleanText, li) == Settled(cleanText, extractStructuredData(cleanText, li))
ProcessText(extractedText, li) == Processed(CleanText(extractedText), li)

\* ------------------------------------------------------------ the inputs
\* The texts a photo can hold: up to MaxPieces pieces, each joined to the
\* text before it by one of the Separators, and the fixed Phrases.
MaxPieces == 2
Separators == {<<" ">>, <<" ","\n","\t">>}
Pieces ==
  { <<>>, <<"V","o","g","u","e">>, <<"k","w","i","k">>, <<"B","6","7","8","9">>, <<"D","e","s","i","g","n",":"," ","L","i","t","t","l","e"," ","B","l","a","c","k"," ","D","r","e","s","s">>,
    <<"M">>, <<"6","-","1","4">>, <<"E","a","s","y">> }
RECURSIVE Texts(_)
Texts(n) ==
  IF n = 0 THEN {<<>>}
  ELSE LET shorter == Texts(n - 1)
       IN  shorter \cup {t \o sep \o p : t \in shorter, sep \in Separators, p \in Pieces}
\* A text of one repeated letter.
Filler(n) == [k \in 1..n |-> "x"]
Sample ==
  <<"S","i","m","p","l","i","c","i","t","y"," ","P","a","t","t","e","r","n"," ","#","8","2","3","4"," ","M","i","s","s","e","s"," ","W","r","a","p"," ","D","r","e","s","s"," ","S","i","z","e"," ","6","-","1","4"," ","C","o","t","t","o","n"," ","I","n","t","e","r","m","e","d","i","a","t","e">>
Phrases ==
  { Sample, Sample \o <<"\n">> \o Sample,
    Filler(50), Filler(51), Filler(100), Filler(101),
    <<"v","o","g","u","e"," ">> \o Filler(44), <<"v","o","g","u","e"," ">> \o Filler(45), <<"V","o","g","u","e"," ","1","2","3","4"," ">> \o Filler(90),
    <<" "," ","\n","\t"," ">>, <<"\t","V","o","g","u","e","\n","\n","8","2","3","4"," "," ">>,
    <<" "," ","F","a","b","r","i","c","s",":"," ","a",","," ","b",","," ","c",","," ","d"," ","\n">>, <<"S","u","g","g","e","s","t","e","d"," ","F","a","b","r","i","c","s",":"," ","C","o","t","t","o","n",","," ","S","i","l","k">>,
    <<"R","e","c","o","m","m","e","n","d","e","d"," ","F","a","b","r","i","c","s",":"," ","s","i","l","k"," ","b","l","e","n","d">>, <<"F","a","b","r","i","c",":"," ",":",":",":",":",":">>, <<"F","a","b","r","i","c","s",":"," ","a",","," ","b",","," ","c">>,
    <<"C","o","t","t","o","n"," ","L","i","n","e","n"," ","S","i","l","k"," ","W","o","o","l">>, <<"W","o","o","l","w","o","r","t","h">>, <<"w","o","o","l"," ","a","n","d"," ","D","E","N","I","M">>, <<"C","o","t","t","o","n",","," ","L","i","n","e","n"," ","F","a","b","r","i","c","s",":"," ","a",","," ","b",","," ","c">>,
    <<"D","e","s","i","g","n",":"," ","L","i","t","t","l","e"," ","B","l","a","c","k"," ","D","r","e","s","s"," ","b","y"," ","m","c","c","a","l","l","'","s"," "," ","s","i","z","e"," ","M"," ","l","e","v","e","l"," ","2">>,
    <<"P","a","t","t","e","r","n"," ","#","1","2","3","a"," ","S","i","z","e","s",":"," ","8"," ","~"," ","1","6"," ","W","o","o","l","w","o","r","t","h"," ","L","e","v","e","l","2"," ","S","k","i","l","l"," ","L","e","v","e","l",":"," ","E","a","s","y","p","e","a","s","y">>,
    <<"n","e","w"," ","K","w","i","k"," ","S","e","w"," ","N","o","."," ","A","1","2","3","4","5","B">>, <<"P","a","t","t","e","r","n",":"," ","K","i","d","s"," ","V","o","g","u","e"," ","T","o","p"," ","C","l","a","s","s","i","c">>,
    <<"M","i","s","s","e","s"," ","D","a","i","l","y"," ","B","l","o","u","s","e"," ","T","o","p">>, <<"B","o","y","s"," ","S","u","i","t">>, <<"S","i","m","p","l","i","c","i","t","y"," ","S","i","m","p","l","i","c","i","t","y"," ","T","o","d","a","y">>,
    <<"S","k","i","l","l"," ","L","e","v","e","l",":"," ","2">>, <<"L","e","v","e","l"," ","3">>, <<"l","e","v","e","l"," ","4"," ","e","x","p","e","r","t">>, <<"A","d","v","a","n","c","e","d">>, <<"E","x","p","e","r","t">>, <<"L","e","v","e","l","2">>,
    <<"S","k","i","l","l"," ","L","e","v","e","l",":"," ","E","a","s","y","p","e","a","s","y">>, <<"L","e","v","e","l","2"," ","S","k","i","l","l"," ","L","e","v","e","l",":"," ","E","a","s","y","p","e","a","s","y">>,
    <<"X","L">>, <<"6","-","1","4"," ","M">>, <<"S","i","z","e","s",":"," ","8","-","1","0","-","1","2","-","1","4","-","1","6","-","1","8","-","2","0","-","2","2">>, <<"S","i","z","e"," ","S","|","M","|","L">>, <<"S","i","z","e"," ","a","b","c">>,
    <<"S","i","z","e","s"," ","1","0"," ","~"," ","1","2">>, <<"S","i","z","e",":"," ","1"," ","2"," ","3"," ","4"," ","5"," ","6"," ","7"," ","8"," ","9"," ","1","0"," ","1","1"," ","1","2"," ","1","3">>,
    <<"N","o",".","1","2","3">>, <<"1","2","3","4","5">>, <<"1","2","3","A">>, <<"A","B","1","2","3","4">>, <<"1","2","3","4","5","6","7">>, <<"P","a","t","t","e","r","n","#",":","a","1","2","3","4","5","b">>, <<"n","o"," ","4","5","6","7","b">>,
    <<"D","e","e","r"," ","&"," ","D","o","e">>, <<"H","e","l","e","n","'","s"," ","C","l","o","s","e","t">>, <<"p","a","t","t","e","r","n","s">>, <<"s","e","w"," ","k","w","i","k">>, <<"l","o","o","k"," ","k","w","i","k">>, <<"V","o","g","u","e","M">>,
    <<"k","w","i","k"," ","l","o","o","k">>, <<"p","i","r","a","t","e","s"," ","s","e","v","e","n"," ","s","t","u","d","i","o">>, <<"B","u","r","d","a"," ","a","n","d"," ","V","o","g","u","e">>, <<"v","o","g","u","e"," ","B","U","R","D","A">>,
    <<"P","a","t","t","e","r","n"," ","#","A","1","2","3","4","5","B"," ","N","o","."," ","1","2","3","x">>, <<"N","o","."," ","1","2","3","x"," ","P","a","t","t","e","r","n"," ","#","A","1","2","3","4","5","B">>, <<"P","a","t","t","e","r","n"," ","#","1","2","a">>,
    <<"1","4"," ","S","i","z","e","s",":"," ","8","-","1","0"," ","x","l">>, <<"S","i","z","e"," ","6"," ","-"," ","1","4"," ","o","r"," ","8","-","1","0">>, <<"8","-","1","0"," ","6"," ","-"," ","1","4">>, <<"S","i","z","e","s",":"," ","L">>,
    <<"W","o","o","l","w","o","r","t","h"," ","C","o","t","t","o","n","w","o","o","d">>, <<"w","o","o","l"," ","W","o","o","l","w","o","r","t","h">>, <<"S","i","l","k","y"," ","k","n","i","t","w","e","a","r">>,
    <<"T","w","i","l","l"," ","w","o","o","l"," ","C","O","T","T","O","N"," ","l","i","n","e","n">>, <<"W","o","o","l"," ","S","i","l","k"," ","F","a","b","r","i","c",":"," ","l","i","n","i","n","g">>, <<"F","a","b","r","i","c","s",":"," ","B","o","d","y",":"," ","L","i","n","i","n","g",":">>,
    <<"S","i","l","k"," ","F","a","b","r","i","c",":"," ","a",":"," ","b",":"," ","c",":">>, <<"s","i","l","k"," ","c","o","t","t","o","n"," ","s","i","l","k">>,
    <<"M","o","o","d"," ","F","a","b","r","i","c","s">>, <<"D","e","s","i","g","n",":"," ","A">> \o Filler(50), <<"A">> \o Filler(60),
    <<"L","e","v","e","l"," ","3"," ","E","a","s","y">>, <<"E","a","s","y"," ","L","e","v","e","l"," ","3">>, <<"E","a","s","y"," ","E","x","p","e","r","t">>, <<"e","x","p","e","r","t"," ","E","A","S","Y">>, <<"a","d","v","a","n","c","e","d"," ","l","e","v","e","l"," ","1">>,
    <<"L","e","v","e","l","2"," ","L","e","v","e","l"," ","3">>, <<"S","k","i","l","l"," ","L","e","v","e","l",":"," ","e","x","p","e","r","t","l","y","e","a","s","y">>, <<"S","k","i","l","l"," ","L","e","v","e","l"," ","I","n","t","e","r","m","e","d","i","a","t","e","s">>,
    <<"C","a","s","u","a","l"," ","B","O","Y","S"," ","V","O","G","U","E"," ","T","o","p","s">>, <<"T","e","e"," ","W","O","M","E","N"," ","M","E","N"," ","C","H","I","L","D","R","E","N"," ","G","I","R","L","S"," ","T","o","p","s">>, <<"D","e","s","i","g","n",":"," ","K","i","d","s","-","V","o","g","u","e",".","B","o","y","s"," ","S","e","t">>,
    <<"M","i","s","s","e","s"," ","K","i","d","s"," ","B","o","y","s"," ","V","o","g","u","e">>, <<"P","a","t","t","e","r","n",":"," ","S","i","m","p","l","i","c","i","t","y"," ","M","i","s","s","e","s"," ","T","o","p","s">>,
    <<"P","a","t","t","e","r","n",":"," ","M","o","r","n","i","n","g"," ","G","l","o","r","y"," ","D","r","e","s","s">>, <<"D","e","s","i","g","n",":"," ","P","l","a","i","d"," ","C","o","a","t"," ","S","m","a","l","l">>, <<"P","a","t","t","e","r","n",":"," ","A","p","p","l","e"," ","P","i","e"," ","C","o","a","t">>,
    <<"b","u","t","t","e","r","i","c","k"," ","B","6","7","8","9"," ","E","a","s","y"," ","K","n","i","t"," ","T","o","p"," ","S","i","z","e"," ","X","S">> }
\* The names of the catalog, each as the whole text of a photo.
CompanyNames == {PATTERN_COMPANIES[k] : k \in 1..Len(PATTERN_COMPANIES)}
Inputs == Texts(MaxPieces) \cup Phrases \cup CompanyNames
\* The texts of the runs that call processOCR repeatedly.
HistoryInputs ==
  { <<>>, <<"M">>, <<"6","-","1","4"," ","M">>, <<"E","a","s","y">>, <<"L","e","v","e","l"," ","2">>, <<"S","i","z","e","s",":"," ","8"," ","~"," ","1","6"," ","S","k","i","l","l"," ","L","e","v","e","l",":"," ","E","a","s","y","p","e","a","s","y">>,
    <<"M"," ","L"," ","X","L"," ","E","a","s","y"," ","E","x","p","e","r","t">>, Sample }

\* --------------------------------------------------------------- the state
NoFile == <<"no file">>
NoCall == [text |-> undefined, result |-> [text |-> undefined, confidence |-> 0,
                                           extractedData |-> EmptyData]]
VARIABLES
  pc,             \* the processOCR call: "idle", "awaiting", "resolved", "rejected"
  file,           \* the photo passed to processOCR, as the text on it
  extractedText,  \* what blink.data.extractFromBlob returned
  caught,         \* what the catch block of processOCR caught
  ocrResult,      \* the OCRResult the promise resolved with
  lastIndex,      \* lastIndex of the RegExp objects of SIZE_PATTERNS and DIFFICULTY_PATTERNS
  earlier         \* an earlier resolved call, kept to compare later calls with

\* ------------------------------------------------- AddPatternDialog: values
\* The handlers of the dialog that take part: at most MaxUploads photos are
\* chosen, MaxEdits fields are changed and MaxSubmits times the form is
\* submitted.
MaxUploads == 2
MaxEdits == 1
MaxSubmits == 1
Sides == {"front", "back"}
\* The photos the user chooses from, each as the text on it.
PhotoTexts == <<Sample, <<"V","o","g","u","e">>>>
DialogPhotos == {PhotoTexts[k] : k \in 1..Len(PhotoTexts)}
\* What the user types into a text field, and the levels of the selector.
TypedValues == {<<"m","i","n","e">>}
SelectItems == {<<"B","e","g","i","n","n","e","r">>, <<"I","n","t","e","r","m","e","d","i","a","t","e">>, <<"A","d","v","a","n","c","e","d">>, <<"E","x","p","e","r","t">>}
TextFields ==
  {"patternName", "patternCompany", "patternNumber", "sizeRange", "fabricType", "notes"}
\* The form field that `${type}Photo` names.
PhotoField == [front |-> "frontPhoto", back |-> "backPhoto"]
\* useState's first value of formData, which resetForm sets again.
InitialFormData ==
  [patternName |-> <<>>, patternCompany |-> <<>>, patternNumber |-> <<>>,
   sizeRange |-> <<>>, difficulty |-> <<"B","e","g","i","n","n","e","r">>, fabricType |-> <<>>,
   notes |-> <<>>, frontPhoto |-> undefined, backPhoto |-> undefined]
\* {} for photoPreview and ocrResults: no entry for either side (NoResult
\* stands for the missing OCRResult).
NoPreviews == [front |-> undefined, back |-> undefined]
NoResults == [front |-> NoResult, back |-> NoResult]
NotProcessing == [front |-> FALSE, back |-> FALSE]
\* handleSubmit when none is running.
NoSubmit == [at |-> "idle", formData |-> InitialFormData, ocrResults |-> NoResults,
             frontPhotoUrl |-> <<>>, backPhotoUrl |-> <<>>]

VARIABLES
  formData,       \* useState: the form's fields and photos
  photoPreview,   \* useState: the preview of each side, as the photo shown
  ocrResults,     \* useState: the OCRResult kept for each side
  ocrProcessing,  \* useState: for each side, whether OCR is shown as running
  loading,        \* useState: a submit is running
  toast,          \* the title of the latest toast
  requests,       \* processOCRForPhoto calls awaiting processOCR: side, photo
                  \* and the formData of the render that made the call
  readers,        \* FileReaders whose onload has not run: side and photo
  submit,         \* handleSubmit: the await it stands at, with the formData and
                  \* ocrResults of the render that made the call
  stored,         \* blink.storage.upload calls that succeeded: side and photo
  created,        \* the records blink.db.patterns.create has created
  added,          \* the patterns onPatternAdded was called with
  serviceCalls,   \* how many times processOCR has called the service
  serviceFailures, \* how many of these calls have failed
  uploads,        \* how many times handlePhotoUpload has run
  edits,          \* how many times handleInputChange was called by the user
  submits,        \* how many times handleSubmit has run
  recognised      \* what processOCR resolves with for each of PhotoTexts, the
                  \* RegExp objects being as they are when the module is loaded
\* ------------------------------------------------------------ App: values
null == <<"null">>
\* At most MaxUpdates times a pattern is updated.
MaxUpdates == 1
\* A Pattern, with the fields App and PatternDetailDialog read; the photo
\* URLs stand as their last path segment.
Pattern(id, name, company, number, difficulty, fabricType, front, back) ==
  [id |-> id, patternName |-> name, patternCompany |-> company, patternNumber |-> number,
   difficulty |-> difficulty, fabricType |-> fabricType,
   frontPhotoUrl |-> front, backPhotoUrl |-> back, createdAt |-> id]
\* The records of the user in the database when the app starts.
StoredPatterns ==
  { Pattern(1, <<"W","r","a","p"," ","D","r","e","s","s">>, <<"S","i","m","p","l","i","c","i","t","y">>, <<"8","2","3","4">>, <<"I","n","t","e","r","m","e","d","i","a","t","e">>, <<"C","o","t","t","o","n">>, <<"f","1">>, null),
    Pattern(2, null, <<"V","o","g","u","e">>, <<"V","1","2","3","4">>, <<"B","e","g","i","n","n","e","r">>, null, <<"f","2">>, <<"b","2">>) }
\* The record AddPatternDialog creates later on.
NewPatterns ==
  { Pattern(3, <<"V","o","g","u","e"," ","C","o","a","t">>, <<"S","i","m","p","l","i","c","i","t","y">>, null, <<"B","e","g","i","n","n","e","r">>, <<"C","o","t","t","o","n">>, null, <<"b","3">>) }
\* What the user types into the search bar.
SearchTerms == {<<>>, <<"V","O","G","U","E">>, <<"8","2">>}
FilterKeys == {"company", "difficulty", "fabricType"}
\* The field of a Pattern a filter is compared with.
FilteredField ==
  [company |-> "patternCompany", difficulty |-> "difficulty", fabricType |-> "fabricType"]
NoFilters == [company |-> <<>>, difficulty |-> <<>>, fabricType |-> <<>>]
\* selectedPattern when it is null.
NoPattern == Pattern(0, null, null, null, null, null, null, null)
\* handleDelete when none is running.
NoDelete == [at |-> "idle", pattern |-> NoPattern]
\* The signed-in state blink.auth.onAuthStateChanged reports.
SignedIn == [user |-> [id |-> "u1"], isLoading |-> FALSE]
NoUser == [id |-> "none"]

VARIABLES
  user,             \* App useState: the user, NoUser for null
  appLoading,       \* App useState: loading
  patterns,         \* App useState
  filteredPatterns, \* App useState
  selectedPattern,  \* App useState, NoPattern for null
  showAddDialog,    \* App useState
  showDetailDialog, \* App useState
  searchTerm,       \* SearchAndFilter useState
  filters,          \* SearchAndFilter useState
  detailLoading,    \* PatternDetailDialog useState: loading
  del,              \* handleDelete: the await it stands at, with the pattern
                    \* of the render that made the call
  listing,          \* loadPatterns awaits blink.db.patterns.list
  db,               \* the records of the user in the database
  appToast,         \* the title of the latest toast of PatternDetailDialog
  lastId,           \* the id of the latest record created
  updates           \* how many times handlePatternUpdated has run
appVars ==
  <<user, appLoading, patterns, filteredPatterns, selectedPattern, showAddDialog,
    showDetailDialog, searchTerm, filters, detailLoading, del, listing, db,
    appToast, lastId, updates>>
ocrVars == <<pc, file, extractedText, caught, ocrResult, earlier>>
dialogVars ==
  <<formData, photoPreview, ocrResults, ocrProcessing, loading, toast,
    requests, readers, submit, stored, created, added, serviceCalls, serviceFailures,
    uploads, edits, submits, recognised>>
vars == <<pc, file, extractedText, caught, ocrResult, lastIndex, earlier, dialogVars, appVars>>

Init ==
  /\ pc = "idle"
  /\ file = NoFile
  /\ extractedText = undefined
  /\ caught = "nothing"
  /\ ocrResult = NoResult
  /\ lastIndex = InitialLastIndex
  /\ earlier = NoCall
  /\ formData = InitialFormData
  /\ photoPreview = NoPreviews
  /\ ocrResults = NoResults
  /\ ocrProcessing = NotProcessing
  /\ loading = FALSE
  /\ toast = "none"
  /\ requests = <<>>
  /\ readers = <<>>
  /\ submit = NoSubmit
  /\ stored = {}
  /\ created = <<>>
  /\ added = <<>>
  /\ serviceCalls = 0
  /\ serviceFailures = 0
  /\ uploads = 0
  /\ edits = 0
  /\ submits = 0
  /\ recognised = [k \in 1..Len(PhotoTexts) |-> ProcessText(PhotoTexts[k], InitialLastIndex)]
  /\ user = NoUser
  /\ appLoading = TRUE
  /\ patterns = <<>>
  /\ filteredPatterns = <<>>
  /\ selectedPattern = NoPattern
  /\ showAddDialog = FALSE
  /\ showDetailDialog = FALSE
  /\ searchTerm = <<>>
  /\ filters = NoFilters
  /\ detailLoading = FALSE
  /\ del = NoDelete
  /\ listing = FALSE
  /\ db = StoredPatterns
  /\ appToast = "none"
  /\ lastId = Cardinality(StoredPatterns)
  /\ updates = 0

\* processOCR(f) is called and awaits the text-recognition service.
Call(f) ==
  /\ pc' = "awaiting"
  /\ file' = f
  /\ extractedText' = undefined
  /\ caught' = "nothing"
  /\ ocrResult' = NoResult
  /\ UNCHANGED <<lastIndex, earlier, dialogVars, appVars>>

\* The first call after the module is loaded.
FirstCall(f) == pc = "idle" /\ Call(f)
\* A call after an earlier one has settled.
CallAgain(f) == pc \in {"resolved", "rejected"} /\ Call(f)

\* The service returns the text of the photo: the rest of the try block
\* runs to its return, or to the catch block.
ServiceReturns ==
  /\ pc = "awaiting"
  /\ \E r \in {ProcessText(file, lastIndex)} :
       /\ pc' = r.settled
       /\ caught' = r.caught
       /\ ocrResult' = r.result
       /\ lastIndex' = r.lastIndex
  /\ extractedText' = file
  /\ UNCHANGED <<file, earlier, dialogVars, appVars>>

\* The service fails: the catch block rethrows.
ServiceFails ==
  /\ pc = "awaiting"
  /\ pc' = "rejected"
  /\ caught' = "service error"
  /\ UNCHANGED <<file, extractedText, ocrResult, lastIndex, earlier, dialogVars, appVars>>

\* A call after one that has resolved, which is kept for the comparison of
\* later calls on the same text with it.
CallAgainRemembering(f) ==
  /\ pc = "resolved"
  /\ earlier = NoCall
  /\ earlier' = [text |-> extractedText, result |-> ocrResult]
  /\ pc' = "awaiting"
  /\ file' = f
  /\ extractedText' = undefined
  /\ caught' = "nothing"
  /\ ocrResult' = NoResult
  /\ UNCHANGED <<lastIndex, dialogVars, appVars>>

\* One call of processOCR on a freshly loaded module, for every text.
Next ==
  \/ \E f \in Inputs : FirstCall(f)
  \/ ServiceReturns
  \/ ServiceFails
Spec == Init /\ [][Next]_vars

\* Any number of calls, one after the other, on the texts of HistoryInputs.
NextHistory ==
  \/ \E f \in HistoryInputs : FirstCall(f)
  \/ \E f \in HistoryInputs : CallAgain(f)
  \/ ServiceReturns
  \/ ServiceFails
  \/ \E f \in HistoryInputs : CallAgainRemembering(f)
SpecHistory == Init /\ [][NextHistory]_vars

\* ------------------------------------------------ AddPatternDialog: handlers
\* xs without its i-th element.
Remove(xs, i) == SubSeq(xs, 1, i - 1) \o SubSeq(xs, i + 1, Len(xs))
\* x || null for a string or undefined.
OrNull(x) == IF Truthy(x) THEN x ELSE null

\* processOCR on a photo of the dialog once the service has returned its
\* text.
RecognisedWith(f, li) ==
  IF li = InitialLastIndex
  THEN recognised[CHOOSE k \in 1..Len(PhotoTexts) : PhotoTexts[k] = f]
  ELSE ProcessText(f, li)

\* The field of extractedData that the auto-fill copies into a form field.
ExtractedFor ==
  [patternCompany |-> "company", patternNumber |-> "patternNumber",
   patternName |-> "patternName", sizeRange |-> "sizeRange",
   fabricType |-> "fabricType", difficulty |-> "difficulty"]
\* The auto-fill without its test for an empty field: the variant of AutoFill
\* that C25 is tested against.
AutoFillAlways(current, closure, extractedData) ==
  [f \in DOMAIN current |->
     IF f \in DOMAIN ExtractedFor /\ Truthy(extractedData[ExtractedFor[f]])
     THEN extractedData[ExtractedFor[f]]
     ELSE current[f]]
\* The auto-fill: each test reads the formData of the render that called
\* processOCRForPhoto (closure); each handleInputChange writes into the
\* formData of now (current).
AutoFill(current, closure, extractedData) ==
  [f \in DOMAIN current |->
     IF /\ f \in DOMAIN ExtractedFor
        /\ Truthy(extractedData[ExtractedFor[f]])
        /\ ~Truthy(closure[f])
     THEN extractedData[ExtractedFor[f]]
     ELSE current[f]]
ProcessedTitle == [front |-> "Front photo processed", back |-> "Back photo processed"]
\* ocrProcessing left as it is when a call ends: the variant of
\* ProcessingEnded that C15 is tested against.
ProcessingKept(processing, type) == processing
\* finally: setOcrProcessing(prev => ({ ...prev, [type]: false }))
ProcessingEnded(processing, type) == [processing EXCEPT ![type] = FALSE]

\* The user changes a text field, or picks a level in the selector.
handleInputChange(field, value) ==
  /\ edits < MaxEdits
  /\ edits' = edits + 1
  /\ formData' = [formData EXCEPT ![field] = value]
  /\ UNCHANGED <<ocrVars, appVars, recognised, serviceFailures, lastIndex, photoPreview, ocrResults, ocrProcessing, loading,
                 toast, requests, readers, submit, stored, created, added,
                 serviceCalls, uploads, submits>>

\* The user chooses a photo for a side: the FileReader starts, the photo is
\* put into the form, and processOCRForPhoto runs up to the await of
\* processOCR, which has called the service.
handlePhotoUpload(type, photo) ==
  /\ uploads < MaxUploads
  /\ uploads' = uploads + 1
  /\ readers' = Append(readers, [type |-> type, file |-> photo])
  /\ formData' = [formData EXCEPT ![PhotoField[type]] = photo]
  /\ ocrProcessing' = [ocrProcessing EXCEPT ![type] = TRUE]
  /\ requests' = Append(requests, [type |-> type, file |-> photo, formData |-> formData])
  /\ serviceCalls' = serviceCalls + 1
  /\ UNCHANGED <<ocrVars, appVars, recognised, serviceFailures, lastIndex, photoPreview, ocrResults, loading, toast,
                 submit, stored, created, added, edits, submits>>

\* reader.onload of the i-th FileReader.
ReaderLoaded(i) ==
  /\ i \in 1..Len(readers)
  /\ photoPreview' = [photoPreview EXCEPT ![readers[i].type] = readers[i].file]
  /\ readers' = Remove(readers, i)
  /\ UNCHANGED <<ocrVars, appVars, recognised, serviceFailures, lastIndex, formData, ocrResults, ocrProcessing, loading, toast,
                 requests, submit, stored, created, added, serviceCalls,
                 uploads, edits, submits>>

\* The catch block of processOCRForPhoto.
OcrCaught ==
  /\ toast' = "OCR processing failed"
  /\ UNCHANGED <<formData, ocrResults>>
\* The try block of processOCRForPhoto after processOCR has resolved with r.
OcrStored(q, result) ==
  /\ ocrResults' = [ocrResults EXCEPT ![q.type] = result]
  /\ formData' = AutoFill(formData, q.formData, result.extractedData)
  /\ toast' = ProcessedTitle[q.type]

\* The service returns the text of the photo of the i-th call: processOCR
\* settles and processOCRForPhoto runs to its end.
PhotoProcessed(i) ==
  /\ i \in 1..Len(requests)
  /\ \E r \in {RecognisedWith(requests[i].file, lastIndex)} :
       /\ lastIndex' = r.lastIndex
       /\ IF r.settled = "resolved" THEN OcrStored(requests[i], r.result) ELSE OcrCaught
  /\ ocrProcessing' = ProcessingEnded(ocrProcessing, requests[i].type)
  /\ requests' = Remove(requests, i)
  /\ UNCHANGED <<ocrVars, appVars, recognised, serviceFailures, photoPreview, loading, readers, submit, stored, created, added,
                 serviceCalls, uploads, edits, submits>>

\* The service fails for the i-th call: processOCR rejects and
\* processOCRForPhoto runs its catch and finally blocks.
PhotoFailed(i) ==
  /\ i \in 1..Len(requests)
  /\ serviceFailures' = serviceFailures + 1
  /\ OcrCaught
  /\ ocrProcessing' = ProcessingEnded(ocrProcessing, requests[i].type)
  /\ requests' = Remove(requests, i)
  /\ UNCHANGED <<ocrVars, appVars, recognised, lastIndex, photoPreview, loading, readers, submit, stored,
                 created, added, serviceCalls, uploads, edits, submits>>

\* resetForm
resetForm ==
  /\ formData' = InitialFormData
  /\ photoPreview' = NoPreviews
  /\ ocrResults' = NoResults
  /\ ocrProcessing' = NotProcessing

\* The user submits the form (the button is disabled while loading): without
\* a photo handleSubmit returns after its toast, otherwise it runs up to the
\* await of blink.auth.me().
handleSubmit ==
  /\ ~loading
  /\ submits < MaxSubmits
  /\ submits' = submits + 1
  /\ IF formData.frontPhoto = undefined /\ formData.backPhoto = undefined
     THEN /\ toast' = "Photos required"
          /\ UNCHANGED <<loading, submit>>
     ELSE /\ loading' = TRUE
          /\ submit' = [at |-> "auth", formData |-> formData, ocrResults |-> ocrResults,
                        frontPhotoUrl |-> <<>>, backPhotoUrl |-> <<>>]
          /\ UNCHANGED toast
  /\ UNCHANGED <<ocrVars, appVars, recognised, serviceFailures, lastIndex, formData, photoPreview, ocrResults, ocrProcessing,
                 requests, readers, stored, created, added, serviceCalls, uploads, edits>>

\* No upload awaited at all: the variant of AwaitAfter that C28 is tested
\* against.
AwaitSkipsUploads(at, form) == "create"
\* The await handleSubmit reaches after the one at `at` has resolved.
AwaitAfter(at, form) ==
  IF at = "auth" /\ form.frontPhoto # undefined THEN "front"
  ELSE IF at \in {"auth", "front"} /\ form.backPhoto # undefined THEN "back"
  ELSE "create"

\* blink.auth.me() resolves.
UserFound ==
  /\ submit.at = "auth"
  /\ submit' = [submit EXCEPT !.at = AwaitAfter("auth", submit.formData)]
  /\ UNCHANGED <<ocrVars, appVars, recognised, serviceFailures, lastIndex, formData, photoPreview, ocrResults, ocrProcessing,
                 loading, toast, requests, readers, stored, created, added,
                 serviceCalls, uploads, edits, submits>>

\* blink.storage.upload of the photo of a side resolves; its publicUrl
\* stands for the photo.
PhotoStored(type) ==
  /\ submit.at = type
  /\ stored' = stored \cup {[type |-> type, file |-> submit.formData[PhotoField[type]]]}
  /\ submit' = IF type = "front"
               THEN [submit EXCEPT !.at = AwaitAfter("front", submit.formData),
                                   !.frontPhotoUrl = submit.formData.frontPhoto]
               ELSE [submit EXCEPT !.at = "create",
                                   !.backPhotoUrl = submit.formData.backPhoto]
  /\ UNCHANGED <<ocrVars, appVars, recognised, serviceFailures, lastIndex, formData, photoPreview, ocrResults, ocrProcessing,
                 loading, toast, requests, readers, created, added,
                 serviceCalls, uploads, edits, submits>>

\* ocrResults.front?.text || null and ocrResults.front?.confidence || null
TextOrNull(result) == IF result = NoResult THEN null ELSE OrNull(result.text)
ConfidenceOrNull(result) ==
  IF result = NoResult \/ result.confidence = 0 THEN null ELSE result.confidence
\* The record handleSubmit passes to blink.db.patterns.create.
NewPattern(s) ==
  [patternName |-> OrNull(s.formData.patternName),
   patternCompany |-> OrNull(s.formData.patternCompany),
   patternNumber |-> OrNull(s.formData.patternNumber),
   sizeRange |-> OrNull(s.formData.sizeRange),
   difficulty |-> s.formData.difficulty,
   fabricType |-> OrNull(s.formData.fabricType),
   notes |-> OrNull(s.formData.notes),
   frontPhotoUrl |-> OrNull(s.frontPhotoUrl),
   backPhotoUrl |-> OrNull(s.backPhotoUrl),
   frontOcrText |-> TextOrNull(s.ocrResults.front),
   backOcrText |-> TextOrNull(s.ocrResults.back),
   frontOcrConfidence |-> ConfidenceOrNull(s.ocrResults.front),
   backOcrConfidence |-> ConfidenceOrNull(s.ocrResults.back)]

\* loading kept until a submit succeeds: the variant of LoadingEnded that C16
\* is tested against.
LoadingUntilAdded(succeeded) == ~succeeded
\* finally: setLoading(false)
LoadingEnded(succeeded) == FALSE

\* blink.db.patterns.create resolves: handleSubmit runs to its end.
PatternCreated ==
  /\ submit.at = "create"
  /\ created' = Append(created, NewPattern(submit))
  /\ added' = Append(added, NewPattern(submit))
  /\ resetForm
  /\ toast' = "Pattern added successfully!"
  /\ loading' = LoadingEnded(TRUE)
  /\ submit' = NoSubmit
  /\ UNCHANGED <<ocrVars, appVars, recognised, serviceFailures, lastIndex, requests, readers, stored, serviceCalls, uploads,
                 edits, submits>>

\* The call handleSubmit awaits rejects, whichever it is: the catch and
\* finally blocks run.
SubmitFailed ==
  /\ submit.at \in {"auth", "front", "back", "create"}
  /\ toast' = "Failed to add pattern"
  /\ loading' = LoadingEnded(FALSE)
  /\ submit' = NoSubmit
  /\ UNCHANGED <<ocrVars, appVars, recognised, serviceFailures, lastIndex, formData, photoPreview, ocrResults, ocrProcessing,
                 requests, readers, stored, created, added, serviceCalls, uploads,
                 edits, submits>>

NextDialog ==
  \/ \E field \in TextFields, value \in TypedValues \cup {<<>>} :
       handleInputChange(field, value)
  \/ \E value \in SelectItems : handleInputChange("difficulty", value)
  \/ \E type \in Sides, photo \in DialogPhotos : handlePhotoUpload(type, photo)
  \/ \E i \in 1..MaxUploads : ReaderLoaded(i)
  \/ \E i \in 1..MaxUploads : PhotoProcessed(i)
  \/ \E i \in 1..MaxUploads : PhotoFailed(i)
  \/ handleSubmit
  \/ UserFound
  \/ \E type \in Sides : PhotoStored(type)
  \/ PatternCreated
  \/ SubmitFailed
SpecDialog == Init /\ [][NextDialog]_vars
\* ----------------------------------------------------------- App: handlers
\* pattern.patternName?.toLowerCase().includes(searchTerm.toLowerCase())
TermFound(field, term) == field # null /\ Includes(toLowerCase(field), toLowerCase(term))
\* handleSearch on the patterns of the render that made it: the value it
\* passes to setFilteredPatterns.
handleSearch(ps, term, fs) ==
  LET bySearch == IF term # <<>>
                  THEN SelectSeq(ps, LAMBDA p : \/ TermFound(p.patternName, term)
                                                \/ TermFound(p.patternCompany, term)
                                                \/ TermFound(p.patternNumber, term))
                  ELSE ps
      byCompany == IF fs.company # <<>>
                   THEN SelectSeq(bySearch, LAMBDA p : p.patternCompany = fs.company)
                   ELSE bySearch
      byDifficulty == IF fs.difficulty # <<>>
                      THEN SelectSeq(byCompany, LAMBDA p : p.difficulty = fs.difficulty)
                      ELSE byCompany
  IN  IF fs.fabricType # <<>>
      THEN SelectSeq(byDifficulty, LAMBDA p : p.fabricType = fs.fabricType)
      ELSE byDifficulty

\* filteredPatterns left as the handler has set it: the variant of
\* SearchEffect that C29 is tested against.
NoSearchEffect(ps, shown, term, fs) == shown
\* The effect of SearchAndFilter. Its dependencies are searchTerm, filters
\* and onSearch, and onSearch is the handleSearch App makes anew in every
\* render: the effect runs after every render of App and after every change
\* of searchTerm or filters, and calls handleSearch of the latest render of
\* App (patterns ps, filteredPatterns shown) with the term and filters of now.
SearchEffect(ps, shown, term, fs) == handleSearch(ps, term, fs)

\* The records in the order of blink.db.patterns.list: createdAt descending.
ListOf(records) ==
  CHOOSE s \in [1..Cardinality(records) -> records] :
    \A i, j \in 1..Cardinality(records) : i < j => s[i].createdAt > s[j].createdAt
\* The options a filter's selector offers: '' and the values of the patterns.
Options(key) ==
  {<<>>} \cup ({patterns[i][FilteredField[key]] : i \in 1..Len(patterns)} \ {null, <<>>})
\* The fields of the app that no handler of the gallery, the search or the
\* detail dialog writes.
appCounters == <<lastId, updates>>
others == <<ocrVars, lastIndex, dialogVars>>

\* blink.auth.onAuthStateChanged reports the signed-in user: App renders its
\* page, SearchAndFilter is mounted and its effect runs, and the effect on
\* user.id calls loadPatterns, which runs up to the await of the list.
AuthStateChanged(state) ==
  /\ user = NoUser
  /\ user' = state.user
  /\ appLoading' = state.isLoading
  /\ listing' = TRUE
  /\ filteredPatterns' = SearchEffect(patterns, filteredPatterns, searchTerm, filters)
  /\ UNCHANGED <<patterns, selectedPattern, showAddDialog, showDetailDialog, searchTerm,
                 filters, detailLoading, del, db, appToast, appCounters, others>>

\* blink.db.patterns.list resolves: loadPatterns runs to its end.
PatternsListed ==
  /\ listing
  /\ listing' = FALSE
  /\ patterns' = ListOf(db)
  /\ filteredPatterns' = SearchEffect(ListOf(db), ListOf(db), searchTerm, filters)
  /\ UNCHANGED <<user, appLoading, selectedPattern, showAddDialog, showDetailDialog,
                 searchTerm, filters, detailLoading, del, db, appToast,
                 appCounters, others>>

\* blink.db.patterns.list rejects: the catch block of loadPatterns.
ListFailed ==
  /\ listing
  /\ listing' = FALSE
  /\ UNCHANGED <<user, appLoading, patterns, filteredPatterns, selectedPattern,
                 showAddDialog, showDetailDialog, searchTerm, filters, detailLoading, del,
                 db, appToast, appCounters, others>>

\* The user clicks 'Add Pattern'.
AddPatternClicked ==
  /\ user # NoUser /\ ~showAddDialog /\ ~showDetailDialog
  /\ showAddDialog' = TRUE
  /\ UNCHANGED <<user, appLoading, patterns, filteredPatterns, selectedPattern,
                 showDetailDialog, searchTerm, filters, detailLoading, del, listing, db,
                 appToast, appCounters, others>>

\* AddPatternDialog has created the record newPattern and calls
\* onPatternAdded with it.
handlePatternAdded(newPattern) ==
  /\ showAddDialog
  /\ newPattern.id = lastId + 1
  /\ lastId' = newPattern.id
  /\ db' = db \cup {newPattern}
  /\ patterns' = <<newPattern>> \o patterns
  /\ filteredPatterns' = SearchEffect(<<newPattern>> \o patterns, <<newPattern>> \o filteredPatterns,
                                      searchTerm, filters)
  /\ showAddDialog' = FALSE
  /\ UNCHANGED <<user, appLoading, selectedPattern, showDetailDialog, searchTerm, filters,
                 detailLoading, del, listing, appToast, updates, others>>

\* prev.map(p => p.id === updatedPattern.id ? updatedPattern : p)
Updated(prev, updatedPattern) ==
  [i \in 1..Len(prev) |-> IF prev[i].id = updatedPattern.id THEN updatedPattern ELSE prev[i]]
\* onPatternUpdated is called with the pattern of the detail dialog, changed.
handlePatternUpdated(updatedPattern) ==
  /\ showDetailDialog /\ selectedPattern # NoPattern
  /\ updates < MaxUpdates
  /\ updates' = updates + 1
  /\ patterns' = Updated(patterns, updatedPattern)
  /\ filteredPatterns' = SearchEffect(Updated(patterns, updatedPattern),
                                      Updated(filteredPatterns, updatedPattern),
                                      searchTerm, filters)
  /\ selectedPattern' = updatedPattern
  /\ UNCHANGED <<user, appLoading, showAddDialog, showDetailDialog, searchTerm, filters,
                 detailLoading, del, listing, db, appToast, lastId, others>>

\* The user clicks a card of the gallery, which shows filteredPatterns.
handlePatternClick(pattern) ==
  /\ user # NoUser /\ ~showAddDialog /\ ~showDetailDialog
  /\ selectedPattern' = pattern
  /\ showDetailDialog' = TRUE
  /\ UNCHANGED <<user, appLoading, patterns, filteredPatterns, showAddDialog, searchTerm,
                 filters, detailLoading, del, listing, db, appToast, appCounters,
                 others>>

\* The user closes the detail dialog: onOpenChange(false).
DetailClosed ==
  /\ showDetailDialog
  /\ showDetailDialog' = FALSE
  /\ UNCHANGED <<user, appLoading, patterns, filteredPatterns, selectedPattern,
                 showAddDialog, searchTerm, filters, detailLoading, del, listing, db,
                 appToast, appCounters, others>>

\* The user types into the search bar: setSearchTerm, then the effect.
SearchTermChanged(value) ==
  /\ user # NoUser /\ ~showAddDialog /\ ~showDetailDialog
  /\ searchTerm' = value
  /\ filteredPatterns' = SearchEffect(patterns, filteredPatterns, value, filters)
  /\ UNCHANGED <<user, appLoading, patterns, selectedPattern, showAddDialog,
                 showDetailDialog, filters, detailLoading, del, listing, db, appToast, appCounters, others>>

\* The user picks an option of a filter's selector, then the effect.
handleFilterChange(key, value) ==
  /\ user # NoUser /\ ~showAddDialog /\ ~showDetailDialog
  /\ value \in Options(key)
  /\ filters' = [filters EXCEPT ![key] = value]
  /\ filteredPatterns' = SearchEffect(patterns, filteredPatterns, searchTerm,
                                      [filters EXCEPT ![key] = value])
  /\ UNCHANGED <<user, appLoading, patterns, selectedPattern, showAddDialog,
                 showDetailDialog, searchTerm, detailLoading, del, listing, db, appToast, appCounters, others>>

\* The user clicks 'Clear', shown while a term or a filter is set.
clearAllFilters ==
  /\ user # NoUser /\ ~showAddDialog /\ ~showDetailDialog
  /\ searchTerm # <<>> \/ filters # NoFilters
  /\ searchTerm' = <<>>
  /\ filters' = NoFilters
  /\ filteredPatterns' = SearchEffect(patterns, filteredPatterns, <<>>, NoFilters)
  /\ UNCHANGED <<user, appLoading, patterns, selectedPattern, showAddDialog,
                 showDetailDialog, detailLoading, del, listing, db, appToast,
                 appCounters, others>>

\* The user confirms 'Delete' in the detail dialog (the button is disabled
\* while loading): handleDelete runs up to the await of
\* blink.db.patterns.delete.
handleDelete ==
  /\ showDetailDialog /\ selectedPattern # NoPattern
  /\ ~detailLoading
  /\ detailLoading' = TRUE
  /\ del' = [at |-> "db", pattern |-> selectedPattern]
  /\ UNCHANGED <<user, appLoading, patterns, filteredPatterns, selectedPattern,
                 showAddDialog, showDetailDialog, searchTerm, filters, listing, db, appToast, appCounters, others>>

\* if (pattern.frontPhotoUrl) { const frontPath = ...; if (frontPath) ... }
HasPhoto(url) == url # null /\ url # <<>>
\* The await handleDelete reaches after the one at `at` has resolved, "done"
\* when none is left.
DeleteAwaitAfter(at, pattern) ==
  IF at = "db" /\ HasPhoto(pattern.frontPhotoUrl) THEN "front"
  ELSE IF at \in {"db", "front"} /\ HasPhoto(pattern.backPhotoUrl) THEN "back"
  ELSE "done"
\* prev.filter(p => p.id !== patternId)
Without(prev, patternId) == SelectSeq(prev, LAMBDA p : p.id # patternId)
\* handlePatternDeleted, called by handleDelete after its last await, the
\* toast and the finally block; the detail dialog is unmounted.
handlePatternDeleted(patternId) ==
  /\ patterns' = Without(patterns, patternId)
  /\ filteredPatterns' = SearchEffect(Without(patterns, patternId),
                                      Without(filteredPatterns, patternId), searchTerm, filters)
  /\ showDetailDialog' = FALSE
  /\ selectedPattern' = NoPattern
  /\ appToast' = "Pattern deleted"
  /\ detailLoading' = FALSE
  /\ del' = NoDelete
\* handleDelete goes on after an await has resolved.
DeleteGoesOn(next) ==
  IF next = "done"
  THEN handlePatternDeleted(del.pattern.id)
  ELSE /\ del' = [del EXCEPT !.at = next]
       /\ UNCHANGED <<patterns, filteredPatterns, showDetailDialog, selectedPattern,
                      appToast, detailLoading>>

\* blink.db.patterns.delete resolves.
RecordDeleted ==
  /\ del.at = "db"
  /\ db' = {p \in db : p.id # del.pattern.id}
  /\ DeleteGoesOn(DeleteAwaitAfter("db", del.pattern))
  /\ UNCHANGED <<user, appLoading, showAddDialog, searchTerm, filters, listing, appCounters, others>>

\* blink.storage.remove of the photo of a side resolves.
PhotoRemoved(type) ==
  /\ del.at = type
  /\ DeleteGoesOn(DeleteAwaitAfter(type, del.pattern))
  /\ UNCHANGED <<user, appLoading, showAddDialog, searchTerm, filters, listing, db,
                 appCounters, others>>

\* The call handleDelete awaits rejects, whichever it is: the catch and
\* finally blocks run.
DeleteFailed ==
  /\ del.at \in {"db", "front", "back"}
  /\ appToast' = "Failed to delete pattern"
  /\ detailLoading' = FALSE
  /\ del' = NoDelete
  /\ UNCHANGED <<user, appLoading, patterns, filteredPatterns, selectedPattern,
                 showAddDialog, showDetailDialog, searchTerm, filters, listing, db, appCounters, others>>

\* A pattern with another company, as an edit would leave it.
Edited(pattern) == [pattern EXCEPT !.patternCompany = <<"V","o","g","u","e">>]

NextApp ==
  \/ AuthStateChanged(SignedIn)
  \/ PatternsListed
  \/ ListFailed
  \/ AddPatternClicked
  \/ \E newPattern \in NewPatterns : handlePatternAdded(newPattern)
  \/ handlePatternUpdated(Edited(selectedPattern))
  \/ \E i \in 1..Len(filteredPatterns) : handlePatternClick(filteredPatterns[i])
  \/ DetailClosed
  \/ \E value \in SearchTerms : SearchTermChanged(value)
  \/ \E key \in FilterKeys : \E value \in Options(key) : handleFilterChange(key, value)
  \/ clearAllFilters
  \/ handleDelete
  \/ RecordDeleted
  \/ \E type \in Sides : PhotoRemoved(type)
  \/ DeleteFailed
SpecApp == Init /\ [][NextApp]_vars

\* ------------------------------------------------------------- the claims
Resolved == pc = "resolved"
Data == ocrResult.extractedData
Present(x) == x # undefined
FieldNames ==
  {"company", "patternNumber", "patternName", "sizeRange", "fabricType", "difficulty"}
AllAbsent(data) == \A f \in FieldNames : data[f] = undefined
AllPresent(data) == \A f \in FieldNames : Present(data[f])
ArrayToSet(xs) == {xs[k] : k \in 1..Len(xs)}

\* C1: whenever processOCR resolves, the confidence of its result is between
\* 0.3 and 1.0 (30 and 100 hundredths), whichever fields were found and
\* however long the text is.
C1_ConfidenceRange ==
  Resolved => ocrResult.confidence >= 30 /\ ocrResult.confidence <= 100
\* A result with all six fields on a text of more than 50 characters, whose
\* uncapped score is 1.10.
C1_Witness ==
  Resolved /\ AllPresent(Data) /\ Len(ocrResult.text) > 50 /\ ocrResult.confidence = 100

\* C2: once the service has returned a text, processOCR does not reject: the
\* clean-up, the six sub-extractions and the confidence computation throw
\* nothing, and the result holds a text, a confidence and, for each field,
\* either nothing or a non-empty string.
CompleteResult(r) ==
  /\ r.text # undefined
  /\ r.confidence \in Nat
  /\ DOMAIN r.extractedData = FieldNames
  /\ \A f \in FieldNames : r.extractedData[f] # <<>> /\ r.extractedData[f] # TypeError
C2_ExtractionTotal ==
  /\ caught # "TypeError"
  /\ pc = "rejected" => caught = "service error"
  /\ Resolved => CompleteResult(ocrResult)
\* A non-empty text on which no rule matches.
C2_Witness == Resolved /\ ocrResult.text # <<>> /\ AllAbsent(Data)

\* C3: a text that is empty after the clean-up gives no field and confidence
\* exactly 0.3.
C3_EmptyText ==
  Resolved /\ ocrResult.text = <<>> => AllAbsent(Data) /\ ocrResult.confidence = 30
\* A text of whitespace only.
C3_Witness ==
  Resolved /\ extractedText # <<>> /\ ocrResult.text = <<>> /\ ocrResult.confidence = 30

\* C4: a call of processOCR on a text resolves with the fields and the
\* confidence that an earlier call on the same text resolved with, whatever
\* calls were made in between, and the RegExp objects of SIZE_PATTERNS and
\* DIFFICULTY_PATTERNS keep lastIndex 0 from one call to the next.
C4_HistoryIndependent ==
  /\ lastIndex = InitialLastIndex
  /\ Resolved /\ earlier # NoCall /\ earlier.text = extractedText
       => ocrResult = earlier.result
\* A later call on the text of the earlier one, on which a size pattern and a
\* difficulty pattern have matched.
C4_Witness ==
  /\ Resolved /\ earlier # NoCall /\ earlier.text = extractedText
  /\ Present(Data.sizeRange) /\ Present(Data.difficulty)

\* C5: the confidence is min(1.0, 0.30 + 0.20 company + 0.20 patternNumber
\* + 0.15 patternName + 0.10 sizeRange + 0.05 fabricType + 0.05 difficulty
\* + 0.05 if the clean text is longer than 50 + 0.05 if it is longer than
\* 100): 50 characters earn nothing, 51 earn 0.05, 101 earn 0.10.
Weight(present, w) == IF present THEN w ELSE 0
C5_Formula ==
  Resolved =>
    LET n == Len(ocrResult.text)
        sum == 30 + Weight(Present(Data.company), 20) + Weight(Present(Data.patternNumber), 20)
                  + Weight(Present(Data.patternName), 15) + Weight(Present(Data.sizeRange), 10)
                  + Weight(Present(Data.fabricType), 5) + Weight(Present(Data.difficulty), 5)
                  + Weight(n > 50, 5) + Weight(n > 100, 5)
    IN  /\ ocrResult.confidence = Min(100, sum)
        /\ n = 50 /\ AllAbsent(Data) => ocrResult.confidence = 30
        /\ n = 51 /\ AllAbsent(Data) => ocrResult.confidence = 35
        /\ n = 101 /\ AllAbsent(Data) => ocrResult.confidence = 40
\* A text of exactly 50 characters with one field found: no length bonus.
C5_Witness ==
  Resolved /\ Len(ocrResult.text) = 50 /\ Present(Data.company) /\ ocrResult.confidence = 50

\* C6: company is absent or an entry of PATTERN_COMPANIES, spelled as there;
\* difficulty is absent or one of Beginner, Intermediate, Advanced, Expert.
DifficultyLevels == {<<"B","e","g","i","n","n","e","r">>, <<"I","n","t","e","r","m","e","d","i","a","t","e">>, <<"A","d","v","a","n","c","e","d">>, <<"E","x","p","e","r","t">>}
C6_ClosedValues ==
  Resolved =>
    /\ Data.company \in ArrayToSet(PATTERN_COMPANIES) \cup {undefined}
    /\ Data.difficulty \in DifficultyLevels \cup {undefined}
\* A company found by a lower-case token of its name, and a difficulty
\* normalized from another word.
C6_Witness ==
  /\ Resolved /\ Data.company = <<"K","w","i","k"," ","S","e","w">> /\ Data.difficulty = <<"B","e","g","i","n","n","e","r">>
  /\ ~Includes(ocrResult.text, <<"K","w","i","k">>) /\ ~Includes(ocrResult.text, <<"B","e","g","i","n","n","e","r">>)

\* C7: a pattern number has 3 to 6 characters and no lower-case letter, a
\* pattern name 5 to 50 characters, a size range 1 to 20 characters.
LengthWithin(x, lo, hi) == Present(x) => Len(x) >= lo /\ Len(x) <= hi
C7_FieldFormats ==
  Resolved =>
    /\ LengthWithin(Data.patternNumber, 3, 6)
    /\ Present(Data.patternNumber) => ArrayToSet(Data.patternNumber) \cap LowerSet = {}
    /\ LengthWithin(Data.patternName, 5, 50)
    /\ LengthWithin(Data.sizeRange, 1, 20)
\* A pattern number that the text spells with a lower-case letter.
C7_Witness ==
  /\ Resolved /\ Present(Data.patternNumber)
  /\ ~Includes(ocrResult.text, Data.patternNumber)
  /\ Includes(toUpperCase(ocrResult.text), Data.patternNumber)

\* C8: splitting fabricType on commas gives at most three items.
CommaItems(x) == Cardinality({k \in 1..Len(x) : x[k] = ","}) + 1
C8_AtMostThreeFabrics ==
  Resolved /\ Present(Data.fabricType) => CommaItems(Data.fabricType) <= 3

\* C9: the text of the result has no whitespace at its ends, no newline or
\* tab and no two whitespace characters in a row; cleaning it again changes
\* nothing; it is the service's text with every whitespace run replaced by one
\* space and the ends trimmed, and the fields and the confidence are those
\* extracted from it.
Squeezed(s) ==
  /\ \A k \in 1..Len(s) : s[k] \in SpaceSet => s[k] = " " /\ k > 1 /\ k < Len(s)
  /\ \A k \in 1..(Len(s) - 1) : ~(s[k] = " " /\ s[k + 1] = " ")
\* The non-whitespace characters of s, in order.
Ink(s) == SelectSeq(s, LAMBDA c : c \notin SpaceSet)
C9_Normalized ==
  Resolved =>
    /\ Squeezed(ocrResult.text)
    /\ CleanText(ocrResult.text) = ocrResult.text
    /\ Ink(ocrResult.text) = Ink(extractedText)
    /\ Len(SplitOnSpace(ocrResult.text)) = Len(SplitOnSpace(Trim(extractedText)))
    /\ Data = extractStructuredData(ocrResult.text, InitialLastIndex).data
\* A text with whitespace at both ends and a newline and a run of blanks
\* inside.
C9_Witness ==
  /\ Resolved /\ ocrResult.text # extractedText /\ Len(SplitOnSpace(ocrResult.text)) >= 2
  /\ Head(extractedText) \in SpaceSet /\ extractedText[Len(extractedText)] \in SpaceSet
  /\ "\n" \in ArrayToSet(extractedText)

\* C10: the sample envelope text gives company Simplicity, pattern number
\* 8234, a size range containing 6-14, a fabric type containing Cotton,
\* difficulty Intermediate and a pattern name containing neither Misses nor
\* Simplicity.
C10_SampleEnvelope ==
  Resolved /\ extractedText = Sample =>
    /\ Data.company = <<"S","i","m","p","l","i","c","i","t","y">>
    /\ Data.patternNumber = <<"8","2","3","4">>
    /\ Present(Data.sizeRange) /\ Includes(Data.sizeRange, <<"6","-","1","4">>)
    /\ Present(Data.fabricType) /\ Includes(Data.fabricType, <<"C","o","t","t","o","n">>)
    /\ Data.difficulty = <<"I","n","t","e","r","m","e","d","i","a","t","e">>
    /\ Present(Data.patternName)
    /\ ~Includes(Data.patternName, <<"M","i","s","s","e","s">>)
    /\ ~Includes(Data.patternName, <<"S","i","m","p","l","i","c","i","t","y">>)
\* The sample's result; its pattern name is what is left of "Simplicity Patte".
C10_Witness ==
  Resolved /\ extractedText = Sample /\ Data.patternName = <<"P","a","t","t","e">>
  /\ ocrResult.confidence = 100

\* C11: a text that is exactly one name of the company catalog gives that
\* company, no other field, and confidence 0.50.
C11_CompanyAlone ==
  Resolved /\ extractedText \in CompanyNames =>
    /\ Data = [EmptyData EXCEPT !.company = extractedText]
    /\ ocrResult.confidence = 50

\* Where the catalog names occur in a clean text. PhraseAt: w stands at
\* position i of text (0-based) in any letter case, with no word character
\* next to it on either side. TokenHits: the entries one of whose words is a
\* whitespace-delimited token of the text.
PhraseAt(text, w, i) ==
  /\ text[i + 1] = w[1]
  /\ Substring(text, i, i + Len(w)) = w
  /\ ~IsWordAt(text, i - 1)
  /\ ~IsWordAt(text, i + Len(w))
StandsIn(text, w) == \E i \in 0..(Len(text) - Len(w)) : PhraseAt(text, w, i)
HasPhrase(text, w) == StandsIn(toUpperCase(text), toUpperCase(w))
PhrasesIn(upper) ==
  {k \in 1..Len(PATTERN_COMPANIES) : StandsIn(upper, toUpperCase(PATTERN_COMPANIES[k]))}
ExactHits(text) == PhrasesIn(toUpperCase(text))
WordsOf(s) == ArrayToSet(SplitOnSpace(toLowerCase(s)))
HitBy(tokens) ==
  {k \in 1..Len(PATTERN_COMPANIES) : WordsOf(PATTERN_COMPANIES[k]) \cap tokens # {}}
TokenHits(text) == HitBy(WordsOf(text))
Least(S) == CHOOSE k \in S : \A j \in S : k <= j
EarliestOf(S) == IF S = {} THEN undefined ELSE PATTERN_COMPANIES[Least(S)]

\* C12: when no catalog name occurs as an exact phrase and words of two or
\* more catalog names occur as tokens of the text, the company is the one of
\* them that comes first in the catalog, wherever its word stands in the text.
EarliestOfSeveral(exact, tokens, company) ==
  exact = {} /\ Cardinality(tokens) >= 2 => company = EarliestOf(tokens)
C12_FallbackCatalogOrder ==
  Resolved =>
    EarliestOfSeveral(ExactHits(ocrResult.text), TokenHits(ocrResult.text), Data.company)
\* A text whose first token is a word of a later catalog entry only.
FirstTokenOfLater(text, hits) ==
  \E k \in hits :
    /\ k > Least(hits)
    /\ SplitOnSpace(toLowerCase(text))[1] \in
         WordsOf(PATTERN_COMPANIES[k]) \ WordsOf(PATTERN_COMPANIES[Least(hits)])
C12_Witness ==
  /\ Resolved /\ ExactHits(ocrResult.text) = {}
  /\ Cardinality(TokenHits(ocrResult.text)) >= 2
  /\ FirstTokenOfLater(ocrResult.text, TokenHits(ocrResult.text))
  /\ Data.company = EarliestOf(TokenHits(ocrResult.text))

\* C17: exact-phrase matches go before the token-overlap fallback. If some
\* catalog name occurs in the text as a word-bounded phrase in any letter
\* case, the company is the earliest such catalog entry; only otherwise is
\* it the earliest entry with a token hit, or absent when there is none.
ExactBeforeTokens(exact, tokens) ==
  IF exact # {} THEN EarliestOf(exact) ELSE EarliestOf(tokens)
C17_ExactPhraseFirst ==
  Resolved =>
    Data.company = ExactBeforeTokens(ExactHits(ocrResult.text), TokenHits(ocrResult.text))
\* An exact phrase of a later entry together with a token hit of an earlier one.
EarlierTokenHit(exact, tokens) ==
  exact # {} /\ tokens # {} /\ Least(tokens) < Least(exact)
C17_Witness ==
  /\ Resolved
  /\ EarlierTokenHit(ExactHits(ocrResult.text), TokenHits(ocrResult.text))
  /\ Data.company = EarliestOf(ExactHits(ocrResult.text))

\* C13: in a text without the word "fabric", where no name of the fabric
\* catalog stands as a word of its own, fabricType is absent, even when a
\* catalog name is part of a longer word ("Wool" in "Woolworth").
NoFabricLabel(text) == ~Includes(toLowerCase(text), <<"f","a","b","r","i","c">>)
FabricsIn(upper) ==
  {k \in 1..Len(FABRIC_TYPES) : StandsIn(upper, toUpperCase(FABRIC_TYPES[k]))}
FabricWords(text) == FabricsIn(toUpperCase(text))
FabricPartsOfWords(text) ==
  {k \in 1..Len(FABRIC_TYPES) :
     Includes(toLowerCase(text), toLowerCase(FABRIC_TYPES[k]))} \ FabricWords(text)
C13_WordBoundaries ==
  Resolved /\ NoFabricLabel(ocrResult.text) /\ FabricWords(ocrResult.text) = {}
    => Data.fabricType = undefined
C13_Witness ==
  /\ Resolved /\ NoFabricLabel(ocrResult.text)
  /\ FabricWords(ocrResult.text) = {}
  /\ FabricPartsOfWords(ocrResult.text) # {}
  /\ Data.fabricType = undefined

\* C18: the pattern number is decided by the first shape of NumberPatterns
\* that has a match in the text. The first match of that shape, its label
\* removed, is the number in upper case when it has 3 to 6 characters;
\* otherwise the number is absent and no later shape is asked.
ShapesMatching(text) ==
  {k \in 1..Len(NumberPatterns) : NotNull(StringMatch(text, NumberPatterns[k], 0).matches)}
WithoutLabels(m0) ==
  StringReplace(StringReplace(m0, RegExp(Cat(PatternLabel), {"g", "i"}), <<>>),
                RegExp(Cat(NoLabel), {"g", "i"}), <<>>)
FirstCandidate(text, k) ==
  WithoutLabels(ElementZero(StringMatch(text, NumberPatterns[k], 0).matches))
AcceptedNumber(candidate) ==
  IF Len(candidate) >= 3 /\ Len(candidate) <= 6 THEN toUpperCase(candidate) ELSE undefined
DecidedByFirstShape(text, shapes) ==
  IF shapes = {} THEN undefined ELSE AcceptedNumber(FirstCandidate(text, Least(shapes)))
C18_FirstShapeDecides ==
  Resolved =>
    Data.patternNumber = DecidedByFirstShape(ocrResult.text, ShapesMatching(ocrResult.text))

\* C19: the size comes from the first rule of SIZE_PATTERNS, in the order
\* letter code, number range, spaced number range, labelled run, that matches
\* anywhere in the text, whatever a later rule matches and wherever; it is
\* the leftmost match of that rule, its label removed and trimmed, when that
\* has 1 to 20 characters.
SizeRules(text) ==
  {k \in 1..Len(SIZE_PATTERNS) : RegExpExec(SIZE_PATTERNS[k], text, 0) # Null}
LeftmostOf(text, m) == Substring(text, m.index, m.end)
AcceptedSize(size) ==
  IF Len(size) >= 1 /\ Len(size) <= 20 THEN size ELSE undefined
SizeOfFirstRule(text, rules) ==
  IF rules = {} THEN undefined
  ELSE AcceptedSize(Trim(StringReplace(
         LeftmostOf(text, RegExpExec(SIZE_PATTERNS[Least(rules)], text, 0)), SizeLabel, <<>>)))
C19_FirstSizeRule ==
  Resolved => Data.sizeRange = SizeOfFirstRule(ocrResult.text, SizeRules(ocrResult.text))
\* A later rule matches further left in the text than the first rule does.
LaterRuleStandsFirst(text, rules) ==
  \E k \in rules :
    /\ k > Least(rules)
    /\ RegExpExec(SIZE_PATTERNS[k], text, 0).index <
         RegExpExec(SIZE_PATTERNS[Least(rules)], text, 0).index
C19_Witness ==
  /\ Resolved
  /\ LaterRuleStandsFirst(ocrResult.text, SizeRules(ocrResult.text))
  /\ Data.sizeRange # undefined
  /\ Data.sizeRange = SizeOfFirstRule(ocrResult.text, SizeRules(ocrResult.text))

\* C20: fabricType is the catalog names that stand in the text as words, in
\* catalog order and spelled as in the catalog, followed by the texts taken
\* from the labels, the first three of all these joined by ", "; and it is
\* absent exactly when no catalog name is hit and no label matches.
RECURSIVE HitsInCatalogOrder(_, _)
HitsInCatalogOrder(hits, k) ==
  IF k > Len(FABRIC_TYPES) THEN <<>>
  ELSE (IF k \in hits THEN <<FABRIC_TYPES[k]>> ELSE <<>>) \o HitsInCatalogOrder(hits, k + 1)
LabelsMatching(text) ==
  {k \in 1..Len(fabricKeywords) : RegExpExec(fabricKeywords[k], text, 0) # Null}
RECURSIVE LabelTexts(_, _, _)
LabelTexts(text, labels, k) ==
  IF k > Len(fabricKeywords) THEN <<>>
  ELSE (IF k \in labels
        THEN <<Trim(StringReplace(LeftmostOf(text, RegExpExec(fabricKeywords[k], text, 0)),
                                  UpToColon, <<>>))>>
        ELSE <<>>) \o LabelTexts(text, labels, k + 1)
FirstThreeJoined(entries) == Join(SubSeq(entries, 1, Min(3, Len(entries))), <<","," ">>)
C20_FabricList ==
  Resolved =>
    /\ Data.fabricType = undefined
         <=> FabricWords(ocrResult.text) = {} /\ LabelsMatching(ocrResult.text) = {}
    /\ Data.fabricType # undefined =>
         Data.fabricType =
           FirstThreeJoined(HitsInCatalogOrder(FabricWords(ocrResult.text), 1)
                            \o LabelTexts(ocrResult.text, LabelsMatching(ocrResult.text), 1))

\* The difficulty words and phrases that stand in a text (upper-cased) as
\* words of their own, each with its place and the level it maps to.
DifficultyWords ==
  << [word |-> <<"B","E","G","I","N","N","E","R">>, level |-> <<"B","e","g","i","n","n","e","r">>], [word |-> <<"E","A","S","Y">>, level |-> <<"B","e","g","i","n","n","e","r">>],
     [word |-> <<"L","E","V","E","L"," ","1">>, level |-> <<"B","e","g","i","n","n","e","r">>],
     [word |-> <<"I","N","T","E","R","M","E","D","I","A","T","E">>, level |-> <<"I","n","t","e","r","m","e","d","i","a","t","e">>],
     [word |-> <<"L","E","V","E","L"," ","2">>, level |-> <<"I","n","t","e","r","m","e","d","i","a","t","e">>],
     [word |-> <<"A","D","V","A","N","C","E","D">>, level |-> <<"A","d","v","a","n","c","e","d">>], [word |-> <<"L","E","V","E","L"," ","3">>, level |-> <<"A","d","v","a","n","c","e","d">>],
     [word |-> <<"E","X","P","E","R","T">>, level |-> <<"E","x","p","e","r","t">>], [word |-> <<"L","E","V","E","L"," ","4">>, level |-> <<"E","x","p","e","r","t">>] >>
MarksIn(upper) ==
  {[at |-> i, level |-> DifficultyWords[k].level] :
     <<k, i>> \in {<<k, i>> \in (1..Len(DifficultyWords)) \X (0..Len(upper)) :
                    /\ i + Len(DifficultyWords[k].word) <= Len(upper)
                    /\ PhraseAt(upper, DifficultyWords[k].word, i)}}
DifficultyMarks(text) == MarksIn(toUpperCase(text))
FirstMark(marks) == CHOOSE m \in marks : \A n \in marks : m.at <= n.at

\* C21: the difficulty is the level of the difficulty word or phrase
\* (beginner, easy, level 1, intermediate, level 2, advanced, level 3, expert,
\* level 4, in any letter case) that comes first in the text.
FirstMarkDecides(marks, difficulty) ==
  marks # {} => difficulty = FirstMark(marks).level
C21_FirstDifficultyWord ==
  Resolved => FirstMarkDecides(DifficultyMarks(ocrResult.text), Data.difficulty)

\* C22: the first rule of DIFFICULTY_PATTERNS that matches the text decides:
\* the difficulty is what its first match, cut after its last colon,
\* normalizes to, and is absent when that is none of the four levels,
\* whatever a later rule matches.
DifficultyRules(text) ==
  {k \in 1..Len(DIFFICULTY_PATTERNS) : RegExpExec(DIFFICULTY_PATTERNS[k], text, 0) # Null}
NormalizedMatch(text, m) ==
  normalizeDifficulty(Trim(StringReplace(LeftmostOf(text, m), UpToColon, <<>>)))
DecidedByFirstRule(text, rules) ==
  IF rules = {} THEN undefined
  ELSE NormalizedMatch(text, RegExpExec(DIFFICULTY_PATTERNS[Least(rules)], text, 0))
C22_FirstRuleDecides ==
  Resolved =>
    Data.difficulty = DecidedByFirstRule(ocrResult.text, DifficultyRules(ocrResult.text))

\* C23: a pattern name holds none of the qualifier words as a word of its
\* own, in any letter case, and not the company found in the same text.
QualifierWords ==
  {<<"M","I","S","S","E","S">>, <<"W","O","M","E","N">>, <<"M","E","N">>, <<"C","H","I","L","D","R","E","N">>, <<"K","I","D","S">>, <<"G","I","R","L","S">>, <<"B","O","Y","S">>}
FreeOf(upper, words) == \A w \in words : ~StandsIn(upper, w)
CompanyIn(company) == IF Present(company) THEN {toUpperCase(company)} ELSE {}
C23_NameCleaned ==
  Resolved /\ Present(Data.patternName) =>
    FreeOf(toUpperCase(Data.patternName), QualifierWords \cup CompanyIn(Data.company))
\* The text after a "Pattern:" label holds a qualifier and the company.
C23_Witness ==
  /\ Resolved /\ Present(Data.patternName) /\ Present(Data.company)
  /\ RegExpExec(NamePatterns[1], ocrResult.text, 0) # Null
  /\ ~FreeOf(toUpperCase(LeftmostOf(ocrResult.text,
                                    RegExpExec(NamePatterns[1], ocrResult.text, 0))),
             CompanyIn(Data.company))
  /\ ~FreeOf(toUpperCase(LeftmostOf(ocrResult.text,
                                    RegExpExec(NamePatterns[1], ocrResult.text, 0))),
             QualifierWords)

\* The span that C24 speaks of: a capital letter and ten to fifty further
\* characters of whatever kind, after a label or at the beginning of the text.
LabelledSpan == RegExp(Cat(NameLabel \o <<AZ, Rep(Dot, 10, 50)>>), {"g"})
LeadingSpan == RegExp(Cat(<<LineStart, AZ, Rep(Dot, 10, 50)>>), {"g"})
SpanOr(text, m, otherwise) == IF m # Null THEN LeftmostOf(text, m) ELSE otherwise
ClaimedCandidate(text) ==
  SpanOr(text, RegExpExec(LabelledSpan, text, 0),
         SpanOr(text, RegExpExec(LeadingSpan, text, 0), undefined))
WithoutCompany(name, company) ==
  IF Truthy(company) THEN Trim(StringReplace(name, WholeWordRegExp(company), <<>>)) ELSE name
CleanedSpan(span, company) ==
  WithoutCompany(Trim(StringReplace(Trim(StringReplace(span, RegExp(Cat(NameLabel), {"g", "i"}), <<>>)),
                                    Qualifiers, <<>>)),
                 company)
NameAsClaimed(name, patternName) == Len(name) >= 5 /\ Len(name) <= 50 => patternName = name
CandidateDecides(candidate, company, patternName) ==
  Present(candidate) => NameAsClaimed(CleanedSpan(candidate, company), patternName)

\* C24: when the text holds a "Pattern" or "Design" label followed by a capital
\* letter and ten to fifty further characters, whatever letters they are, the
\* pattern name is that span without the label, the qualifiers and the
\* company; otherwise it is got the same way from the span of a capital letter
\* and ten to fifty further characters at the beginning of the text.
C24_NameFromSpan ==
  Resolved => CandidateDecides(ClaimedCandidate(ocrResult.text), Data.company, Data.patternName)

\* ---------------------------------------------- claims on AddPatternDialog
\* The form fields the auto-fill writes, the selector's apart.
PrefillFields == {"patternCompany", "patternNumber", "patternName", "sizeRange", "fabricType"}
\* A step in which a processOCRForPhoto call ends.
OcrEnds == Len(requests') < Len(requests)

\* C14: a step in which an OCR call ends leaves every auto-filled field that
\* is not empty before the step as it is, whatever the user and the other
\* side's OCR call have done since the call began.
C14_NeverOverwrites ==
  [][OcrEnds =>
       \A f \in PrefillFields : formData[f] # <<>> => formData'[f] = formData[f]]_vars

\* C15: the service is called once for each photo chosen; and a step in
\* which a service call fails makes no further call, shows the failure toast,
\* leaves the form, its photos and the kept results as they are, and ends
\* with ocrProcessing false for the side of the call.
ServiceFailure == serviceFailures' = serviceFailures + 1
C15_ServiceFailure ==
  /\ [](serviceCalls = uploads)
  /\ [][ServiceFailure =>
          /\ serviceCalls' = serviceCalls
          /\ toast' = "OCR processing failed"
          /\ formData' = formData
          /\ ocrResults' = ocrResults
          /\ \E i \in 1..Len(requests) :
               /\ requests' = Remove(requests, i)
               /\ ~ocrProcessing'[requests[i].type]]_vars
C15_Witness ==
  /\ serviceFailures = 1 /\ requests = <<>>
  /\ toast = "OCR processing failed"
  /\ formData.frontPhoto # undefined
  /\ ocrResults = NoResults
  /\ ocrProcessing = NotProcessing

\* C16: a step in which the call handleSubmit awaits fails (the user look-up,
\* an upload or the creation) shows the failure toast, calls onPatternAdded
\* not, keeps the form, the previews and the OCR results, and sets loading
\* to false; and loading is false whenever no handleSubmit is running.
SubmitFails == submit.at # "idle" /\ submit'.at = "idle" /\ created' = created
C16_SaveFailure ==
  /\ [](submit.at = "idle" => ~loading)
  /\ [][SubmitFails =>
          /\ toast' = "Failed to add pattern"
          /\ added' = added
          /\ formData' = formData
          /\ photoPreview' = photoPreview
          /\ ocrResults' = ocrResults
          /\ ~loading']_vars
C16_Witness ==
  /\ toast = "Failed to add pattern"
  /\ submit.at = "idle" /\ ~loading
  /\ stored # {} /\ added = <<>>
  /\ formData.frontPhoto # undefined
  /\ formData.patternCompany # <<>>

\* A step in which handleSubmit is called with a photo attached, and one in
\* which the record is created.
SubmitBegins == submit.at = "idle" /\ submit'.at # "idle"
RecordCreated == Len(created') = Len(created) + 1
\* C25: the difficulty of the form is always one of the four levels of the
\* selector; a step in which an OCR call ends leaves it as it is; and the
\* record created carries the difficulty the form had when handleSubmit was
\* called.
C25_DifficultyKept ==
  /\ [](formData.difficulty \in SelectItems)
  /\ [][/\ OcrEnds => formData'.difficulty = formData.difficulty
        /\ SubmitBegins => submit'.formData.difficulty = formData.difficulty
        /\ RecordCreated =>
             created'[Len(created')].difficulty = submit.formData.difficulty]_vars
\* A record created from a photo whose text names another level than the
\* record does.
C25_Witness ==
  /\ created # <<>>
  /\ \E k \in 1..Len(PhotoTexts) :
       /\ created[1].frontOcrText = recognised[k].result.text
       /\ Present(recognised[k].result.extractedData.difficulty)
       /\ recognised[k].result.extractedData.difficulty # created[1].difficulty

\* The text is what processOCR returns for the photo.
TextOfPhoto(photo, text) ==
  \E k \in 1..Len(PhotoTexts) : PhotoTexts[k] = photo /\ text = recognised[k].result.text
\* C26: a result kept for a side is the one computed from the photo the form
\* holds for that side, and the OCR text of a record created is the text of
\* the photo the record holds for that side.
C26_ResultOfAttachedPhoto ==
  /\ \A side \in Sides :
       ocrResults[side] # NoResult => TextOfPhoto(formData[PhotoField[side]], ocrResults[side].text)
  /\ \A n \in 1..Len(created) :
       /\ created[n].frontOcrText # null
            => TextOfPhoto(created[n].frontPhotoUrl, created[n].frontOcrText)
       /\ created[n].backOcrText # null
            => TextOfPhoto(created[n].backPhotoUrl, created[n].backOcrText)

\* The processOCRForPhoto calls of a side that have not ended.
InFlight(side) == {i \in 1..Len(requests) : requests[i].type = side}
\* C27: ocrProcessing of a side is true as long as a call for that side has
\* not ended, a second call begun before the first has ended included.
C27_ProcessingWhileInFlight ==
  \A side \in Sides : InFlight(side) # {} => ocrProcessing[side]

\* The photos of the form handleSubmit was called with.
Attached(form) == {side \in Sides : form[PhotoField[side]] # undefined}
Uploaded(s) == {side \in Sides : [type |-> side, file |-> s.formData[PhotoField[side]]] \in stored}
SubmitCalled == submits' = submits + 1
\* C28: handleSubmit called without a photo shows 'Photos required' and
\* leaves loading, the form, the store and the records as they are; a
\* handleSubmit that runs was called with a photo; when it awaits the
\* creation every photo it was called with has been uploaded; a photo is
\* uploaded only for a handleSubmit awaiting that upload; and onPatternAdded
\* is called, and the photos of the form are cleared, only in the step in
\* which the creation succeeds.
C28_SubmitOrder ==
  /\ [](submit.at # "idle" => Attached(submit.formData) # {})
  /\ [](submit.at = "create" => Attached(submit.formData) \subseteq Uploaded(submit))
  /\ [](added = created)
  /\ [][/\ SubmitCalled /\ Attached(formData) = {} =>
             /\ toast' = "Photos required"
             /\ loading' = loading /\ formData' = formData /\ submit' = submit
             /\ stored' = stored /\ created' = created
        /\ stored' # stored => submit.at \in Attached(submit.formData)
        /\ RecordCreated =>
             /\ submit.at = "create"
             /\ Attached(submit.formData) \subseteq Uploaded(submit)
        /\ (added' # added \/ \E side \in Attached(formData) : side \notin Attached(formData'))
             => RecordCreated /\ added' = created' /\ formData' = InitialFormData]_vars
\* A record created with both photos uploaded, handed to onPatternAdded, and
\* the form reset.
C28_Witness ==
  /\ Len(created) = 1 /\ added = created
  /\ created[1].frontPhotoUrl # null /\ created[1].backPhotoUrl # null
  /\ Cardinality(stored) = 2
  /\ formData = InitialFormData /\ ~loading

\* ------------------------------------------------------------ claims on App
\* The term stands in the field, whatever the case of either.
TermIn(field, term) ==
  /\ field # null
  /\ \E i \in 0..(Len(field) - Len(term)) :
       \A k \in 1..Len(term) : ToLowerChar(field[i + k]) = ToLowerChar(term[k])
\* The pattern passes the term and every filter that is set.
Shown(p, term, fs) ==
  /\ \/ term = <<>>
     \/ TermIn(p.patternName, term)
     \/ TermIn(p.patternCompany, term)
     \/ TermIn(p.patternNumber, term)
  /\ \A key \in FilterKeys : fs[key] = <<>> \/ p[FilteredField[key]] = fs[key]
DeleteEnds == del.at # "idle" /\ del'.at = "idle"
Listed(ps, id) == \E i \in 1..Len(ps) : ps[i].id = id
Stored(records, id) == \E p \in records : p.id = id
\* C30: a handleDelete call that ends with 'Failed to delete pattern' leaves
\* the record in the database and the pattern in both lists; one that ends
\* with 'Pattern deleted' has removed the record and the pattern from both
\* lists, closed the detail dialog and cleared the selection; either way the
\* pattern is in patterns exactly if its record is in the database.
C30_DeleteAllOrNothing ==
  [][DeleteEnds =>
       /\ appToast' = "Failed to delete pattern" =>
            /\ Stored(db', del.pattern.id)
            /\ Listed(patterns', del.pattern.id)
            /\ Listed(filteredPatterns, del.pattern.id) => Listed(filteredPatterns', del.pattern.id)
       /\ appToast' = "Pattern deleted" =>
            /\ ~Stored(db', del.pattern.id)
            /\ ~Listed(patterns', del.pattern.id)
            /\ ~Listed(filteredPatterns', del.pattern.id)
            /\ ~showDetailDialog' /\ selectedPattern' = NoPattern
       /\ Listed(patterns', del.pattern.id) <=> Stored(db', del.pattern.id)]_vars
====
